---- MODULE Spec2Model ----
\* Model of the Libsim analysis adaptor of SENSEI
\* (src/sensei/LibsimAnalysisAdaptor.cxx): the per-rank mesh cache, the
\* metadata pass GetMetaData with its collective calls, and the AMR domain
\* nesting reconstruction GetDomainNesting.
EXTENDS Integers, Sequences, FiniteSets, TLC

\* ------------------------------------------------------------------------
\* Bounds of the model
\* ------------------------------------------------------------------------
NumProcs == 2
NumMeshes == 3
MaxLevels == 3
MaxPatches == 3
MaxTimeStep == 2
MaxArrays == 2
MaxCells == 2
MaxRuns == 2
MaxRanks == 4
MaxItems == 5
MaxIters == 2
MaxCommands == 2
MaxInFlight == 2

\* ------------------------------------------------------------------------
\* Program constants
\* ------------------------------------------------------------------------
nullptr == -1
VISIT_MESHTYPE_RECTILINEAR == 1
VISIT_MESHTYPE_CURVILINEAR == 2
VISIT_MESHTYPE_UNSTRUCTURED == 3
VISIT_MESHTYPE_POINT == 4
VISIT_MESHTYPE_AMR == 6

Procs == 0..(NumProcs - 1)
MeshNames == 1..NumMeshes
LastRank == NumProcs - 1

VARIABLES
  da,          \* the data adaptor: what it serves for every mesh name
  meshData,    \* meshData[p]: std::map<std::string, MeshInfo*> of rank p
  pc,          \* GetMetaData: position of rank p in the pass
  j,           \* GetMetaData: index of the mesh rank p is working on
  post,        \* the collective call rank p is blocked in, if any
  iMesh,       \* GetMetaData: the iMesh[5] buffer of rank p
  md,          \* GetMetaData: mesh metadata rank p has added to md
  collLog,     \* the collective calls rank p has issued, in order
  amr,         \* GetDomainNesting: the vtkOverlappingAMR hierarchy
  npc,         \* GetDomainNesting: position of rank p
  allext,      \* GetDomainNesting: extent table of rank p
  topdim,      \* GetDomainNesting: topological dimension on rank p
  childData,   \* GetDomainNesting: local result buffer of rank p
  worksize,    \* GetDomainNesting: buffer sizes as known to rank p
  workresults, \* GetDomainNesting: gathered triples on rank p
  nesting,     \* GetDomainNesting: records passed to set_nestingForPatch
  run,         \* GetDomainNesting: number of the request being served
  prevResult,  \* GetDomainNesting: what the previous request returned
  cb,          \* the last data callback the engine made and its outcome
  mode,        \* Execute: "batch" or "interactive"
  execPc,      \* Execute: position of rank p
  timestep,    \* Execute: number of Execute calls begun so far
  retval,      \* Execute: the value the last call returned on rank p
  cleared,     \* Execute: ClearMeshDataCache calls of the last call on p
  advertised,  \* names: the mesh and array names the data adaptor reports
  namesPc,     \* names: "start", or "exposed" after the metadata pass
  exposed,     \* names: the variable metadata the pass added to md
  resolved,    \* names: the last external name resolved and the outcome
  ugrid,       \* conversion: the cells of the vtkUnstructuredGrid
  convPc,      \* conversion: position in the connectivity conversion
  cellid,      \* conversion: the loop variable
  newconn,     \* conversion: the int array allocated with connlen entries
  lsconn,      \* conversion: number of entries written through lsconn
  hc,          \* conversion: the variable data handed to the engine
  dataSet,     \* mesh: the vtkDataSet handed to vtkDataSet_to_VisIt_Mesh
  meshPc,      \* mesh: position in vtkDataSet_to_VisIt_Mesh
  mesh,        \* mesh: the handle the function holds and returns
  allocated,   \* mesh: the engine meshes allocated and not freed
  allocFailed, \* mesh: an allocation of the engine has failed
  commSize,    \* partition: the number of ranks of the communicator
  workList,    \* partition: the work list, the same on every rank
  myWork,      \* partition: mywork of rank r
  workPc,      \* partition: whether rank r has built mywork
  paused,      \* interactive: this->paused of rank p
  eiPc,        \* interactive: position of rank p in Execute_Interactive
  iters,       \* interactive: iterations of the do-while loop done by p
  viewer,      \* interactive: the input the engine of rank 0 is reading
  rpcAt,       \* interactive: commands rank p ran in ProcessVisItCommand
  chan,        \* interactive: values broadcast by rank 0, not yet read by p
  pvcRet       \* interactive: what ProcessVisItCommand last returned on p

vars == <<da, meshData, pc, j, post, iMesh, md, collLog, amr, npc, allext,
          topdim, childData, worksize, workresults, nesting, run,
          prevResult, cb, mode,
          execPc, timestep, retval, cleared, advertised, namesPc, exposed,
          resolved, ugrid, convPc, cellid, newconn, lsconn, hc, dataSet,
          meshPc, mesh, allocated, allocFailed, commSize, workList,
          myWork, workPc, paused, eiPc, iters, viewer, rpcAt, chan,
          pvcRet>>

metaVars == <<pc, j, post, iMesh, md, collLog>>
runVars == <<run, prevResult>>
nestVars == <<amr, npc, allext, topdim, childData, worksize, workresults,
              nesting, runVars>>
cbVars == <<cb>>
execVars == <<mode, execPc, timestep, retval, cleared>>
nameVars == <<advertised, namesPc, exposed, resolved>>
convVars == <<ugrid, convPc, cellid, newconn, lsconn, hc>>
meshVars == <<dataSet, meshPc, mesh, allocated, allocFailed>>
workVars == <<commSize, workList, myWork, workPc>>
interVars == <<paused, eiPc, iters, viewer, rpcAt, chan, pvcRet>>
fnVars == <<nameVars, convVars, meshVars, workVars, interVars>>
engineVars == <<cbVars, execVars, fnVars>>

\* ------------------------------------------------------------------------
\* Helpers
\* ------------------------------------------------------------------------
EmptyMap == [x \in {} |-> 0]

RECURSIVE SumTo(_, _)
SumTo(f, n) == IF n < 0 THEN 0 ELSE f[n] + SumTo(f, n - 1)

RECURSIVE SeqSum(_)
SeqSum(s) == IF s = <<>> THEN 0 ELSE Head(s) + SeqSum(Tail(s))

Max2(a, b) == IF a >= b THEN a ELSE b

SeqToSet(s) == {s[i] : i \in 1..Len(s)}

\* ------------------------------------------------------------------------
\* Names.  A std::string is a sequence of tokens: the token "cell_" stands
\* for these five characters, "/" for the separator, any other token for
\* one ordinary character.
\* ------------------------------------------------------------------------
EmptyString == <<>>

\* The name the data adaptor gives to mesh m of MeshNames.
MeshStr(m) == [i \in 1..m |-> "m"]

\* std::string::find("/"): the position (from 0) of the first separator,
\* or npos, here Len(str).
RECURSIVE FindSlash(_, _)
FindSlash(str, pos) ==
  IF pos >= Len(str) THEN Len(str)
  ELSE IF str[pos + 1] = "/" THEN pos
  ELSE FindSlash(str, pos + 1)

\* substr(0, 5) == "cell_"
HasCellPrefix_Never(str) == FALSE

HasCellPrefix(str) == Len(str) >= 1 /\ str[1] = "cell_"

\* substr(pos, npos)
SubstrFrom(str, pos) == SubSeq(str, pos + 1, Len(str))

\* da->GetArrayNames(meshName, association, names); arrays maps the name
\* of every mesh of the data adaptor to its point and cell array names.
\* An unknown mesh name leaves the vector empty.
GetArrayNames(arrays, meshName, association) ==
  IF meshName \in DOMAIN arrays THEN arrays[meshName][association]
  ELSE <<>>

\* GetArrayInfoFromVariableName: meshName, var and association as the
\* function leaves them; "unset" is an output the function did not assign.
GetArrayInfoFromVariableName(varName, meshNames, arrays) ==
  LET pos == FindSlash(varName, 0)
      tmpVar == SubstrFrom(varName, pos + 1)
      r1 == IF Len(meshNames) > 1
            THEN IF pos # Len(varName)
                 THEN IF HasCellPrefix(tmpVar)
                      THEN [meshName |-> SubSeq(varName, 1, pos),
                            var |-> SubstrFrom(tmpVar, 1),
                            association |-> "CELLS", find |-> FALSE]
                      ELSE [meshName |-> SubSeq(varName, 1, pos),
                            var |-> tmpVar,
                            association |-> "unset", find |-> TRUE]
                 ELSE [meshName |-> EmptyString, var |-> EmptyString,
                       association |-> "unset", find |-> FALSE]
            ELSE IF HasCellPrefix(varName)
                 THEN [meshName |-> meshNames[1],
                       var |-> SubstrFrom(varName, 1),
                       association |-> "CELLS", find |-> FALSE]
                 ELSE [meshName |-> meshNames[1], var |-> varName,
                       association |-> "unset", find |-> TRUE]
      pointvars == GetArrayNames(arrays, r1.meshName, "POINTS")
      cellvars == GetArrayNames(arrays, r1.meshName, "CELLS")
      association ==
        IF ~r1.find THEN r1.association
        ELSE IF r1.var \in SeqToSet(pointvars) THEN "POINTS"
        ELSE IF r1.var \in SeqToSet(cellvars) THEN "CELLS"
        ELSE "unset"
  IN [meshName |-> r1.meshName, var |-> r1.var,
      association |-> association,
      daCalls |-> <<"GetMeshNames">>
                  \o (IF r1.find THEN <<"GetArrayNames">> ELSE <<>>)
                  \o (IF r1.find /\ r1.var \notin SeqToSet(pointvars)
                      THEN <<"GetArrayNames">> ELSE <<>>)]

\* The names and arrays the data adaptor reports for the meshes of
\* MeshNames: every mesh has the point array "a" and the cell arrays "a"
\* and "b".
GetMeshNames == [m \in MeshNames |-> MeshStr(m)]
ArraysOfAdaptor ==
  [n \in {MeshStr(m) : m \in MeshNames} |->
     [POINTS |-> << <<"a">> >>, CELLS |-> << <<"a">>, <<"b">> >>]]

\* The variable metadata GetMetaData adds for one mesh: the point arrays
\* first, then the cell arrays, a cell array that is also a point array
\* with "cell_" put before its name, and with more than one mesh the mesh
\* name and "/" before everything.  array and association are the array
\* of the data adaptor the entry stands for.
PointVariable(nMeshes, meshName, array) ==
  [name |-> IF nMeshes > 1 THEN (meshName \o <<"/">>) \o array ELSE array,
   meshName |-> meshName, centering |-> "NODE",
   array |-> array, association |-> "POINTS"]

CellVariable(nMeshes, meshName, array, node_vars) ==
  LET alreadyDefined == array \in SeqToSet(node_vars)
  IN [name |-> IF alreadyDefined
               THEN IF nMeshes > 1
                    THEN (meshName \o <<"/", "cell_">>) \o array
                    ELSE <<"cell_">> \o array
               ELSE IF nMeshes > 1
                    THEN (meshName \o <<"/">>) \o array
                    ELSE array,
      meshName |-> meshName, centering |-> "ZONE",
      array |-> array, association |-> "CELLS"]

VariableMetaData(nMeshes, meshName, arrays) ==
  LET node_vars == GetArrayNames(arrays, meshName, "POINTS")
      cell_vars == GetArrayNames(arrays, meshName, "CELLS")
  IN [i \in 1..Len(node_vars) |->
        PointVariable(nMeshes, meshName, node_vars[i])]
     \o [i \in 1..Len(cell_vars) |->
           CellVariable(nMeshes, meshName, cell_vars[i], node_vars)]

\* ------------------------------------------------------------------------
\* The data callbacks.  cb records the last callback of the engine: which
\* one, on which rank, for which mesh and domain, the local domain it
\* found, the handle it returned, the requests it made to the data
\* adaptor and whether it changed the cache.
\* ------------------------------------------------------------------------
NoCall ==
  [op |-> "none", rank |-> 0, name |-> EmptyString,
   meshName |-> EmptyString, localdomain |-> -1,
   h |-> "VISIT_INVALID_HANDLE", daCalls |-> <<>>, changed |-> FALSE,
   size |-> 0, total |-> 0]

CallbackIdle == cb = NoCall

\* No name is resolved outside a data callback: the variables of the
\* names keep these values.
NoResolve ==
  [index |-> 0, name |-> EmptyString, meshName |-> EmptyString,
   var |-> EmptyString, association |-> "unset"]

NamesIdle ==
  /\ advertised = [meshNames |-> <<>>, POINTS |-> <<>>, CELLS |-> <<>>]
  /\ namesPc = "idle"
  /\ exposed = <<>>
  /\ resolved = NoResolve

\* No unstructured grid is converted: the variables of the conversion
\* keep these values.
NoHandle == [nTuples |-> 0, ncells |-> 0, set |-> FALSE]

ConvIdle ==
  /\ ugrid = <<>>
  /\ convPc = "idle"
  /\ cellid = 0
  /\ newconn = <<>>
  /\ lsconn = 0
  /\ hc = NoHandle

\* No mesh conversion is modelled: its variables keep these values.
MeshIdle ==
  /\ dataSet = <<>>
  /\ meshPc = "idle"
  /\ mesh = "VISIT_INVALID_HANDLE"
  /\ allocated = {}
  /\ allocFailed = FALSE

\* No partition of a work list is modelled: its variables keep these
\* values.
WorkIdle ==
  /\ commSize = 0
  /\ workList = <<>>
  /\ myWork = <<>>
  /\ workPc = <<>>

\* No interactive session is modelled: its variables keep these values.
InterIdle ==
  /\ paused = <<>>
  /\ eiPc = <<>>
  /\ iters = <<>>
  /\ viewer = <<>>
  /\ rpcAt = <<>>
  /\ chan = <<>>
  /\ pvcRet = <<>>

\* No Execute call is modelled: the variables of Execute keep these values.
ExecIdle ==
  /\ mode = "batch"
  /\ execPc = [p \in Procs |-> "none"]
  /\ timestep = 0
  /\ retval = [p \in Procs |-> TRUE]
  /\ cleared = [p \in Procs |-> 0]

\* ------------------------------------------------------------------------
\* The data adaptor (external collaborator): what da->GetMesh returns for a
\* mesh name on every rank.  obj is the class of the returned vtkDataObject,
\* leaf the class of its leaf datasets, dims their dimensions, ghost whether
\* a leaf carries a "vtkGhostType" cell array, blocks the number of blocks of
\* every AMR level, leaves[p] the flat indices of the non-empty leaves that
\* rank p holds.
\* ------------------------------------------------------------------------
LayoutNone == [p \in Procs |-> <<>>]
LayoutLast == [p \in Procs |-> IF p = LastRank THEN <<0, 1>> ELSE <<>>]
LayoutEach == [p \in Procs |-> <<p>>]

\* The leaves of a vtkMultiBlockDataSet: the traversal counts the root as
\* flat index 0, the first block has flat index 1.
TreeLayoutEach == [p \in Procs |-> <<p + 1>>]
TreeLayoutFirst == [p \in Procs |-> IF p = 0 THEN <<1>> ELSE <<>>]

Opt(obj, leaf, dims, ghost, blocks, leaves) ==
  [obj |-> obj, leaf |-> leaf, dims |-> dims, ghost |-> ghost,
   blocks |-> blocks, leaves |-> leaves]

MeshOptions ==
  << Opt("vtkOverlappingAMR", "vtkImageData", <<4, 4, 1>>, FALSE,
         <<1, 1>>, LayoutLast),
     Opt("vtkStructuredGrid", "vtkStructuredGrid", <<4, 4, 1>>, FALSE,
         <<>>, LayoutNone),
     Opt("vtkOverlappingAMR", "vtkImageData", <<4, 4, 4>>, TRUE,
         <<NumProcs>>, LayoutEach),
     Opt("vtkMultiBlockDataSet", "vtkRectilinearGrid", <<4, 1, 1>>, FALSE,
         <<>>, TreeLayoutFirst),
     Opt("vtkMultiBlockDataSet", "vtkUnstructuredGrid", <<0, 0, 0>>, FALSE,
         <<>>, TreeLayoutEach),
     Opt("vtkMultiBlockDataSet", "vtkHyperTreeGrid", <<0, 0, 0>>, FALSE,
         <<>>, TreeLayoutFirst),
     Opt("vtkTable", "none", <<0, 0, 0>>, FALSE, <<>>, LayoutNone) >>

NumOptions == Len(MeshOptions)

IsComposite(o) == o.obj \in {"vtkOverlappingAMR", "vtkMultiBlockDataSet"}
IsDataSet(o) == o.obj \in {"vtkImageData", "vtkRectilinearGrid",
                           "vtkStructuredGrid", "vtkUnstructuredGrid",
                           "vtkPolyData", "vtkHyperTreeGrid"}

\* ------------------------------------------------------------------------
\* MeshInfo and the cache operations
\* ------------------------------------------------------------------------

\* MeshInfo::MeshInfo followed by the resize and assignments of
\* AddMeshDataCacheEntry, before the all-gather has delivered.
NewMeshInfo(datasetIds) ==
  [dataObj |-> "nullptr",
   datasets |-> [i \in 1..Len(datasetIds) |-> nullptr],
   ndoms_per_rank |-> [r \in Procs |-> 0],
   doms_this_rank |-> datasetIds,
   datasetsHaveGhostCells |-> FALSE]

MapPut_KeepsOld(cache, meshName, mInfo) ==
  [n \in (DOMAIN cache) \cup {meshName} |->
     IF n \in DOMAIN cache THEN cache[n] ELSE mInfo]

\* The map update of AddMeshDataCacheEntry: an old entry of meshName is
\* deleted and replaced, other names are untouched.
MapPut(cache, meshName, mInfo) ==
  [n \in (DOMAIN cache) \cup {meshName} |->
     IF n = meshName THEN mInfo ELSE cache[n]]

\* AddMeshDataCacheEntry on one rank, given what MPI_Allgather delivers.
AddMeshDataCacheEntry(cache, meshName, datasetIds, gathered) ==
  MapPut(cache, meshName,
         [NewMeshInfo(datasetIds) EXCEPT !.ndoms_per_rank = gathered])

\* MeshInfo::SetDataSet, idx counted from 0 as in the source.
SetDataSet_Unchecked(mInfo, idx, ds) ==
  IF idx >= 0 /\ idx < Len(mInfo.datasets)
  THEN [mInfo EXCEPT !.datasets[idx + 1] = ds]
  ELSE [mInfo EXCEPT !.datasets = Append(mInfo.datasets, ds)]

SetDataSet(mInfo, idx, ds) ==
  IF idx >= 0 /\ idx < Len(mInfo.datasets)
  THEN [mInfo EXCEPT !.datasets[idx + 1] = ds]
  ELSE mInfo

SetDataObject_MarksGhost(mInfo, obj) ==
  [mInfo EXCEPT !.dataObj = obj, !.datasetsHaveGhostCells = TRUE]

SetDataObject(mInfo, obj) == [mInfo EXCEPT !.dataObj = obj]

SetLeaves_FromLast(mInfo, leafIds, localId) ==
  [mInfo EXCEPT
     !.datasets = [i \in 1..Len(mInfo.datasets) |->
                     IF i - localId \in 1..Len(leafIds)
                     THEN leafIds[Len(leafIds) + 1 - (i - localId)]
                     ELSE mInfo.datasets[i]]]

\* The traversal loop of FetchMesh: leaf k of the composite goes to slot
\* localId++.
RECURSIVE SetLeaves(_, _, _)
SetLeaves(mInfo, leafIds, localId) ==
  IF leafIds = <<>> THEN mInfo
  ELSE SetLeaves(SetDataSet(mInfo, localId, Head(leafIds)),
                 Tail(leafIds), localId + 1)

\* FetchMesh on one rank; failed is the status of da->GetMesh, o the object
\* it returned and p the rank.
FetchMesh(cache, meshName, failed, o, p) ==
  IF meshName \notin DOMAIN cache THEN cache
  ELSE IF failed THEN cache
  ELSE LET m1 == SetDataObject(cache[meshName], o.obj)
           m2 == IF IsComposite(o) THEN SetLeaves(m1, o.leaves[p], 0)
                 ELSE IF IsDataSet(o) THEN SetDataSet(m1, 0, 0)
                 ELSE m1
       IN [cache EXCEPT ![meshName] = m2]

\* ClearMeshDataCache: every entry is deleted and the map is cleared.
ClearMeshDataCache_Keeps(cache) == cache

ClearMeshDataCache(cache) == EmptyMap

GetTotalDomains(cache, meshName) ==
  IF meshName \in DOMAIN cache
  THEN SumTo(cache[meshName].ndoms_per_rank, NumProcs - 1)
  ELSE 0

\* GetDomains: the malloc'ed list and its size.
GetDomains(cache, meshName) ==
  IF meshName \in DOMAIN cache THEN cache[meshName].doms_this_rank ELSE <<>>

\* GetLocalDomain: the first local index whose global id is globaldomain.
RECURSIVE FindFrom(_, _, _)
FindFrom(doms, gdom, i) ==
  IF i >= Len(doms) THEN -1
  ELSE IF gdom = doms[i + 1] THEN i
  ELSE FindFrom(doms, gdom, i + 1)

GetLocalDomain_Shifted(cache, meshName, globaldomain) ==
  IF meshName \in DOMAIN cache
  THEN LET d == FindFrom(cache[meshName].doms_this_rank, globaldomain, 0)
       IN IF d >= 0 THEN d + 1 ELSE d
  ELSE -1

GetLocalDomain_ZeroWhenMissing(cache, meshName, globaldomain) ==
  IF meshName \in DOMAIN cache
  THEN LET d == FindFrom(cache[meshName].doms_this_rank, globaldomain, 0)
       IN IF d >= 0 THEN d ELSE 0
  ELSE -1

GetLocalDomain(cache, meshName, globaldomain) ==
  IF meshName \in DOMAIN cache
  THEN FindFrom(cache[meshName].doms_this_rank, globaldomain, 0)
  ELSE -1

GetDataSet(cache, meshName, localdomain) ==
  IF meshName \in DOMAIN cache
     /\ localdomain >= 0 /\ localdomain < Len(cache[meshName].datasets)
  THEN cache[meshName].datasets[localdomain + 1]
  ELSE nullptr

TopologicalDimension(dims) ==
  (IF dims[1] > 1 THEN 1 ELSE 0) + (IF dims[2] > 1 THEN 1 ELSE 0)
    + (IF dims[3] > 1 THEN 1 ELSE 0)

\* The datasetIds vector GetMetaData builds from the object of rank p.
DatasetIds(o, p) == IF IsComposite(o) THEN o.leaves[p] ELSE <<>>

\* ------------------------------------------------------------------------
\* vtkOverlappingAMR index arithmetic; blocks[l + 1] is the number of data
\* sets of level l, composite indices count the blocks level by level.
\* ------------------------------------------------------------------------
GetNumberOfLevels(blocks) == Len(blocks)
GetNumberOfDataSets(blocks, level) == blocks[level + 1]
GetTotalNumberOfBlocks(blocks) == SeqSum(blocks)
GetCompositeIndex_FromZero(blocks, level, idx) == idx

GetCompositeIndex(blocks, level, idx) ==
  SeqSum(SubSeq(blocks, 1, level)) + idx

RECURSIVE LevelFrom(_, _, _)
LevelFrom(blocks, i, level) ==
  IF level >= Len(blocks) - 1 THEN level
  ELSE IF i < blocks[level + 1] THEN level
  ELSE LevelFrom(blocks, i - blocks[level + 1], level + 1)

\* The level that GetLevelAndIndex reports for composite index i.
LevelOf(blocks, i) == LevelFrom(blocks, i, 0)

\* ------------------------------------------------------------------------
\* GetMetaData, one rank at a time.  pc[p] is "loop" at the head of the
\* mesh loop, "Allgather" and "Bcast" while the rank is blocked in that
\* collective, "gathered" and "bcasted" after it, "done" after the return.
\* ------------------------------------------------------------------------
NoPost == [kind |-> "none", root |-> -1, data |-> <<>>]
iMeshInit == <<-1, 0, 0, 0, 0>>

Statuses == {"ok", "GetMeshFailed", "GhostNodesFailed", "GhostCellsFailed"}

\* A 'continue' of the mesh loop.
Continue(p) ==
  /\ j' = [j EXCEPT ![p] = j[p] + 1]
  /\ pc' = [pc EXCEPT ![p] = "loop"]

\* The early 'continue's: da->GetMesh, the ghost node or ghost cell request
\* failed on this rank, or the object is neither composite nor a data set.
MD_Skip(p) ==
  /\ pc[p] = "loop" /\ j[p] <= NumMeshes
  /\ \E status \in Statuses :
       status # "ok" \/ ~(IsComposite(da[j[p]]) \/ IsDataSet(da[j[p]]))
  /\ Continue(p)
  /\ UNCHANGED <<engineVars, da, meshData, post, iMesh, md, collLog,
                 nestVars>>

\* The requests succeeded: unpack the object and enter
\* AddMeshDataCacheEntry up to its MPI_Allgather.
MD_AddMeshDataCacheEntry(p) ==
  /\ pc[p] = "loop" /\ j[p] <= NumMeshes
  /\ IsComposite(da[j[p]]) \/ IsDataSet(da[j[p]])
  /\ LET datasetIds == DatasetIds(da[j[p]], p)
     IN /\ meshData' = [meshData EXCEPT
                          ![p] = MapPut(meshData[p], j[p],
                                        NewMeshInfo(datasetIds))]
        /\ post' = [post EXCEPT ![p] = [kind |-> "Allgather", root |-> -1,
                                        data |-> <<Len(datasetIds)>>]]
  /\ collLog' = [collLog EXCEPT ![p] = Append(@, <<"Allgather", j[p]>>)]
  /\ pc' = [pc EXCEPT ![p] = "Allgather"]
  /\ UNCHANGED <<engineVars, da, j, iMesh, md, nestVars>>

\* MPI_Allgather delivers once every rank of the communicator is blocked
\* in an all-gather: every rank receives the contribution of every rank.
Allgather_Deliver ==
  /\ \A p \in Procs : post[p].kind = "Allgather"
  /\ meshData' = [p \in Procs |->
        [meshData[p] EXCEPT ![j[p]].ndoms_per_rank =
           [r \in Procs |-> post[r].data[1]]]]
  /\ post' = [p \in Procs |-> NoPost]
  /\ pc' = [p \in Procs |-> "gathered"]
  /\ UNCHANGED <<engineVars, da, j, iMesh, md, collLog, nestVars>>

\* The loop that looks for the first rank with domains.
RECURSIVE FirstWithDomains(_, _)
FirstWithDomains(ndoms_per_rank, i) ==
  IF i >= NumProcs THEN -1
  ELSE IF ndoms_per_rank[i] > 0 THEN i
  ELSE FirstWithDomains(ndoms_per_rank, i + 1)

bcast_rank(mInfo) == FirstWithDomains(mInfo.ndoms_per_rank, 0)

\* What the representative reads from its first data set into iMesh.
SampleMesh(o) ==
  CASE o.leaf = "vtkImageData" ->
         <<IF o.obj = "vtkOverlappingAMR" THEN VISIT_MESHTYPE_AMR
           ELSE VISIT_MESHTYPE_RECTILINEAR,
           o.dims[1], o.dims[2], o.dims[3], IF o.ghost THEN 1 ELSE 0>>
    [] o.leaf = "vtkRectilinearGrid" ->
         <<VISIT_MESHTYPE_RECTILINEAR, o.dims[1], o.dims[2], o.dims[3], 0>>
    [] o.leaf = "vtkStructuredGrid" ->
         <<VISIT_MESHTYPE_CURVILINEAR, o.dims[1], o.dims[2], o.dims[3], 0>>
    [] o.leaf = "vtkUnstructuredGrid" ->
         <<VISIT_MESHTYPE_UNSTRUCTURED, 3, 3, 0, 0>>
    [] o.leaf = "vtkPolyData" ->
         <<VISIT_MESHTYPE_POINT, 0, 3, 0, 0>>
    [] OTHER -> iMeshInit

\* bcast_rank == -1: no rank has a domain, 'continue'.
MD_NoRepresentative(p) ==
  /\ pc[p] = "gathered"
  /\ bcast_rank(meshData[p][j[p]]) = -1
  /\ Continue(p)
  /\ UNCHANGED <<engineVars, da, meshData, post, iMesh, md, collLog,
                 nestVars>>

\* The representative samples datasets[0]; every rank enters MPI_Bcast.
MD_Sample(p) ==
  /\ pc[p] = "gathered"
  /\ LET root == bcast_rank(meshData[p][j[p]])
         buf == IF root = p THEN SampleMesh(da[j[p]]) ELSE iMeshInit
     IN /\ root # -1
        /\ iMesh' = [iMesh EXCEPT ![p] = buf]
        /\ post' = [post EXCEPT ![p] = [kind |-> "Bcast", root |-> root,
                                        data |-> buf]]
  /\ collLog' = [collLog EXCEPT ![p] = Append(@, <<"Bcast", j[p]>>)]
  /\ pc' = [pc EXCEPT ![p] = "Bcast"]
  /\ UNCHANGED <<engineVars, da, meshData, j, md, nestVars>>

\* MPI_Bcast delivers once every rank is blocked in a broadcast: every rank
\* receives the buffer of the root it named.
Bcast_Deliver ==
  /\ \A p \in Procs : post[p].kind = "Bcast"
  /\ iMesh' = [p \in Procs |-> post[post[p].root].data]
  /\ post' = [p \in Procs |-> NoPost]
  /\ pc' = [p \in Procs |-> "bcasted"]
  /\ UNCHANGED <<engineVars, da, meshData, j, md, collLog, nestVars>>

\* The switch on iMesh[0]: the mesh metadata object that is added to md,
\* and the variable metadata added after it in the same iteration.
MeshMetaData(cache, meshName, buf, blocks) ==
  LET dims == <<buf[2], buf[3], buf[4]>>
      structured == buf[1] \in {VISIT_MESHTYPE_RECTILINEAR,
                                VISIT_MESHTYPE_CURVILINEAR,
                                VISIT_MESHTYPE_AMR}
      isAMR == buf[1] = VISIT_MESHTYPE_AMR
  IN [name |-> meshName,
      meshType |-> buf[1],
      topologicalDimension |->
        IF structured THEN TopologicalDimension(dims) ELSE buf[2],
      spatialDimension |->
        IF structured THEN TopologicalDimension(dims) ELSE buf[3],
      numGroups |-> IF isAMR THEN GetNumberOfLevels(blocks) ELSE 0,
      groupIds |-> IF isAMR
                   THEN [i \in 1..GetTotalNumberOfBlocks(blocks) |->
                           LevelOf(blocks, i - 1)]
                   ELSE <<>>,
      numDomains |-> GetTotalDomains(cache, meshName),
      variables |-> VariableMetaData(NumMeshes, MeshStr(meshName),
                                     ArraysOfAdaptor)]

SupportedTypes == {VISIT_MESHTYPE_RECTILINEAR, VISIT_MESHTYPE_CURVILINEAR,
                   VISIT_MESHTYPE_UNSTRUCTURED, VISIT_MESHTYPE_POINT,
                   VISIT_MESHTYPE_AMR}

\* A supported type: the mesh is added to the metadata; for an AMR mesh the
\* ghost flag of the cache entry is set from iMesh[4].
MD_AddMesh(p) ==
  /\ pc[p] = "bcasted"
  /\ iMesh[p][1] \in SupportedTypes
  /\ iMesh[p][1] = VISIT_MESHTYPE_AMR => da[j[p]].obj = "vtkOverlappingAMR"
  /\ md' = [md EXCEPT ![p] =
        Append(@, MeshMetaData(meshData[p], j[p], iMesh[p],
                               da[j[p]].blocks))]
  /\ meshData' = IF iMesh[p][1] = VISIT_MESHTYPE_AMR
                 THEN [meshData EXCEPT
                         ![p][j[p]].datasetsHaveGhostCells = iMesh[p][5] > 0]
                 ELSE meshData
  /\ Continue(p)
  /\ UNCHANGED <<engineVars, da, post, iMesh, collLog, nestVars>>

\* iMesh says AMR but the object of this rank is no vtkOverlappingAMR:
\* overlappingAMR is a null pointer and is dereferenced.  The rank crashes,
\* or it reads no levels and no blocks and goes on.
MD_NullAMR(p) ==
  /\ pc[p] = "bcasted"
  /\ iMesh[p][1] = VISIT_MESHTYPE_AMR
  /\ da[j[p]].obj # "vtkOverlappingAMR"
  /\ \/ /\ pc' = [pc EXCEPT ![p] = "crashed"]
        /\ UNCHANGED <<j, md, meshData>>
     \/ /\ md' = [md EXCEPT ![p] =
               Append(@, MeshMetaData(meshData[p], j[p], iMesh[p], <<>>))]
        /\ meshData' = [meshData EXCEPT
               ![p][j[p]].datasetsHaveGhostCells = iMesh[p][5] > 0]
        /\ Continue(p)
  /\ UNCHANGED <<engineVars, da, post, iMesh, collLog, nestVars>>

\* The default branch of the switch: 'continue'.
MD_Unsupported(p) ==
  /\ pc[p] = "bcasted"
  /\ iMesh[p][1] \notin SupportedTypes
  /\ Continue(p)
  /\ UNCHANGED <<engineVars, da, meshData, post, iMesh, md, collLog,
                 nestVars>>

\* The loop is over: the commands are added and md is returned.
MD_Return(p) ==
  /\ pc[p] = "loop" /\ j[p] > NumMeshes
  /\ pc' = [pc EXCEPT ![p] = "done"]
  /\ UNCHANGED <<engineVars, da, meshData, j, post, iMesh, md, collLog,
                 nestVars>>

\* What a request that has not been made has returned.
NoResult == [npc |-> "none", nesting |-> <<>>, topdim |-> 0]

NestIdle ==
  /\ amr = [blocks |-> <<>>, ratio |-> 0, box |-> <<>>, owner |-> <<>>]
  /\ npc = [p \in Procs |-> "idle"]
  /\ allext = [p \in Procs |-> <<>>]
  /\ topdim = [p \in Procs |-> 0]
  /\ childData = [p \in Procs |-> <<>>]
  /\ worksize = [p \in Procs |-> <<>>]
  /\ workresults = [p \in Procs |-> <<>>]
  /\ nesting = [p \in Procs |-> <<>>]
  /\ run = 0
  /\ prevResult = [p \in Procs |-> NoResult]

MetaStart ==
  /\ pc = [p \in Procs |-> "loop"]
  /\ j = [p \in Procs |-> 1]
  /\ post = [p \in Procs |-> NoPost]
  /\ iMesh = [p \in Procs |-> iMeshInit]
  /\ md = [p \in Procs |-> <<>>]
  /\ collLog = [p \in Procs |-> <<>>]

InitMeta ==
  /\ da \in [MeshNames -> SeqToSet(MeshOptions)]
  /\ meshData = [p \in Procs |-> EmptyMap]
  /\ MetaStart
  /\ NestIdle
  /\ CallbackIdle
  /\ ExecIdle
  /\ NamesIdle
  /\ ConvIdle
  /\ MeshIdle
  /\ WorkIdle
  /\ InterIdle

NextMeta ==
  \/ \E p \in Procs : MD_Skip(p)
  \/ \E p \in Procs : MD_AddMeshDataCacheEntry(p)
  \/ Allgather_Deliver
  \/ \E p \in Procs : MD_NoRepresentative(p)
  \/ \E p \in Procs : MD_Sample(p)
  \/ Bcast_Deliver
  \/ \E p \in Procs : MD_AddMesh(p)
  \/ \E p \in Procs : MD_NullAMR(p)
  \/ \E p \in Procs : MD_Unsupported(p)
  \/ \E p \in Procs : MD_Return(p)

SpecMeta == InitMeta /\ [][NextMeta]_vars

MetaIdle ==
  /\ pc = [p \in Procs |-> "idle"]
  /\ j = [p \in Procs |-> 0]
  /\ post = [p \in Procs |-> NoPost]
  /\ iMesh = [p \in Procs |-> iMeshInit]
  /\ md = [p \in Procs |-> <<>>]
  /\ collLog = [p \in Procs |-> <<>>]

\* ------------------------------------------------------------------------
\* GetDomainNesting.  The hierarchy amr has amr.blocks[l + 1] patches on
\* level l, one refinement ratio, and for the patch of composite index i
\* the box amr.box[i + 1] = <<lowi, highi, lowj, highj, lowk, highk>> and
\* the rank amr.owner[i + 1] on which the box is not empty (NoRank: none).
\* ------------------------------------------------------------------------
NoRank == -1
NestMesh == 1

Boxes ==
  << <<0, 3, 0, 3, 0, 0>>, <<0, 1, 0, 1, 0, 0>>, <<2, 3, 2, 3, 0, 0>>,
     <<1, 1, 0, 3, 0, 0>>, <<0, 5, 0, 3, 0, 0>>, <<0, 1, 0, 1, 0, 2>>,
     <<0, 1, 0, 1, 5, 6>> >>

\* Boxes of the coarsest level, of the level below it, and of the deeper
\* levels.
CoarseBoxes == {Boxes[1], Boxes[4], Boxes[6]}
FineBoxes == {Boxes[2], Boxes[3], Boxes[5], Boxes[6], Boxes[7]}
DeepBoxes == {Boxes[2], Boxes[5]}

Ratios == {2}

in_range(value, v0, v1) == value >= v0 /\ value <= v1

box_intersect_Swapped(ext, extChild, ratio) ==
  LET parent == [k \in 1..6 |-> ext[k] * ratio]
      inX == in_range(parent[1], extChild[1], extChild[2])
             \/ in_range(parent[2], extChild[1], extChild[2])
      inY == in_range(parent[3], extChild[3], extChild[4])
             \/ in_range(parent[4], extChild[3], extChild[4])
      inZ == IF parent[5] # parent[6] \/ parent[5] # 0
             THEN in_range(parent[5], extChild[5], extChild[6])
                  \/ in_range(parent[6], extChild[5], extChild[6])
             ELSE TRUE
  IN inX /\ inY /\ inZ

box_intersect(ext, extChild, ratio) ==
  LET parent == [k \in 1..6 |-> ext[k] * ratio]
      inX == in_range(extChild[1], parent[1], parent[2])
             \/ in_range(extChild[2], parent[1], parent[2])
      inY == in_range(extChild[3], parent[3], parent[4])
             \/ in_range(extChild[4], parent[3], parent[4])
      inZ == IF parent[5] # parent[6] \/ parent[5] # 0
             THEN in_range(extChild[5], parent[5], parent[6])
                  \/ in_range(extChild[6], parent[5], parent[6])
             ELSE TRUE
  IN inX /\ inY /\ inZ

\* The six entries of patch dom in a flat extent table.
ExtOf(table, dom) == [k \in 1..6 |-> table[6 * dom + k]]

\* The table a rank fills before the reduction: -1 everywhere, the box of
\* every patch whose box is not empty on this rank.
LocalExt(a, p) ==
  [x \in 1..(6 * GetTotalNumberOfBlocks(a.blocks)) |->
     LET i == (x - 1) \div 6
         k == ((x - 1) % 6) + 1
     IN IF a.owner[i + 1] = p THEN a.box[i + 1][k] ELSE -1]

RECURSIVE MaxOver(_, _, _)
MaxOver(tables, x, r) ==
  IF r = 0 THEN tables[0][x]
  ELSE Max2(tables[r][x], MaxOver(tables, x, r - 1))

\* MPI_Allreduce with MPI_MAX, in place: what rank p holds afterwards.
ReduceMax_Local(tables, p) == tables[p]

ReduceMax_FromRoot(tables, p) == tables[0]

ReduceMax(tables, p) ==
  [x \in 1..Len(tables[p]) |-> MaxOver(tables, x, NumProcs - 1)]

\* The work list: the composite index of every patch below the last level.
RECURSIVE WorkFrom(_, _)
WorkFrom(blocks, level) ==
  IF level >= GetNumberOfLevels(blocks) - 1 THEN <<>>
  ELSE [i \in 1..GetNumberOfDataSets(blocks, level) |->
          GetCompositeIndex(blocks, level, i - 1)]
       \o WorkFrom(blocks, level + 1)

Work(blocks) == WorkFrom(blocks, 0)

RankN_Ceiling(ws, r, size) == (ws + size - 1) \div size

\* rankn[r]: the number of i < ws with i % size = r.
RankN(ws, r, size) == Cardinality({i \in 0..(ws - 1) : i % size = r})

\* What work[pos] yields; a read behind the end of the vector has no
\* defined value.
OutOfBounds == -1

ReadWork(work, pos) ==
  IF pos \in 0..(Len(work) - 1) THEN work[pos + 1] ELSE OutOfBounds

MyWork_DropsLast(work, rank, size) ==
  LET offset == SeqSum([r \in 1..rank |-> RankN(Len(work), r - 1, size)])
  IN [i \in 1..(RankN(Len(work), rank, size) - 1) |->
        ReadWork(work, offset + i - 1)]

MyWork_RoundRobin(work, rank, size) ==
  [i \in 1..RankN(Len(work), rank, size) |->
     ReadWork(work, rank + (i - 1) * size)]

\* mywork: rankn[rank] consecutive items of work, from the offset that the
\* lower ranks' counts add up to.
MyWork(work, rank, size) ==
  LET offset == SeqSum([r \in 1..rank |-> RankN(Len(work), r - 1, size)])
  IN [i \in 1..RankN(Len(work), rank, size) |->
        ReadWork(work, offset + i - 1)]

\* The children of patch dom: the patches of the next level whose box
\* intersects, in the order of their index.
RECURSIVE ChildrenFrom(_, _, _, _, _)
ChildrenFrom(a, table, dom, nextLevel, jj) ==
  IF jj >= GetNumberOfDataSets(a.blocks, nextLevel) THEN <<>>
  ELSE LET childDom == GetCompositeIndex(a.blocks, nextLevel, jj)
           rest == ChildrenFrom(a, table, dom, nextLevel, jj + 1)
       IN IF box_intersect(ExtOf(table, dom), ExtOf(table, childDom),
                           a.ratio)
          THEN <<childDom>> \o rest
          ELSE rest

\* childData: {compositeIndex nChildren c0 c1 ...} for every item of mywork.
RECURSIVE ChildData(_, _, _)
ChildData(a, table, mywork) ==
  IF mywork = <<>> THEN <<>>
  ELSE LET dom == Head(mywork)
           kids == ChildrenFrom(a, table, dom,
                                LevelOf(a.blocks, dom) + 1, 0)
       IN <<dom, Len(kids)>> \o kids \o ChildData(a, table, Tail(mywork))

LogicalExt_TableOrder(ext) == ext

\* logicalExt: lowi lowj lowk highi highj highk.
LogicalExt(ext) == <<ext[1], ext[3], ext[5], ext[2], ext[4], ext[6]>>

\* The loop over workresults: one set_nestingForPatch call per triple.
RECURSIVE EmitTriples(_, _, _, _)
EmitTriples(a, table, w, pos) ==
  IF pos > Len(w) THEN <<>>
  ELSE LET dom == w[pos]
           nChildren == w[pos + 1]
       IN << [dom |-> dom, level |-> LevelOf(a.blocks, dom),
              children |-> SubSeq(w, pos + 2, pos + 1 + nChildren),
              logicalExt |-> LogicalExt(ExtOf(table, dom)),
              from |-> "triples"] >>
          \o EmitTriples(a, table, w, pos + nChildren + 2)

\* The loop over the patches of the last level: no children.
EmitLeaves(a, table) ==
  LET level == GetNumberOfLevels(a.blocks) - 1
  IN [i \in 1..GetNumberOfDataSets(a.blocks, level) |->
        LET dom == GetCompositeIndex(a.blocks, level, i - 1)
        IN [dom |-> dom, level |-> level, children |-> <<>>,
            logicalExt |-> LogicalExt(ExtOf(table, dom)),
            from |-> "leaves"]]

\* The concatenation MPI_Allgatherv builds from every rank's send buffer.
RECURSIVE GatherFrom(_, _, _)
GatherFrom(bufs, counts, r) ==
  IF r >= NumProcs THEN <<>>
  ELSE SubSeq(bufs[r], 1, counts[r + 1]) \o GatherFrom(bufs, counts, r + 1)

\* The checks at the head of GetDomainNesting, with the FetchMesh of an
\* entry that has no data object yet: the rank returns the invalid handle.
GDN_Skip(p) ==
  /\ npc[p] = "start"
  /\ \E failed \in BOOLEAN :
       LET cache == IF NestMesh \in DOMAIN meshData[p]
                       /\ ~meshData[p][NestMesh].datasetsHaveGhostCells
                       /\ meshData[p][NestMesh].dataObj = "nullptr"
                    THEN FetchMesh(meshData[p], NestMesh, failed,
                                   da[NestMesh], p)
                    ELSE meshData[p]
       IN /\ IF NestMesh \in DOMAIN cache
             THEN cache[NestMesh].datasetsHaveGhostCells
                  \/ cache[NestMesh].dataObj # "vtkOverlappingAMR"
             ELSE TRUE
          /\ meshData' = [meshData EXCEPT ![p] = cache]
  /\ npc' = [npc EXCEPT ![p] = "skipped"]
  /\ UNCHANGED <<engineVars, runVars, da, metaVars, amr, allext, topdim,
                 childData, worksize, workresults, nesting>>

\* The checks pass: the rank fills its extent table and enters the
\* MPI_Allreduce.
GDN_FillExtents(p) ==
  /\ npc[p] = "start"
  /\ NestMesh \in DOMAIN meshData[p]
  /\ ~meshData[p][NestMesh].datasetsHaveGhostCells
  /\ LET cache == IF meshData[p][NestMesh].dataObj = "nullptr"
                  THEN FetchMesh(meshData[p], NestMesh, FALSE,
                                 da[NestMesh], p)
                  ELSE meshData[p]
     IN /\ cache[NestMesh].dataObj = "vtkOverlappingAMR"
        /\ meshData' = [meshData EXCEPT ![p] = cache]
  /\ allext' = [allext EXCEPT ![p] = LocalExt(amr, p)]
  /\ post' = [post EXCEPT ![p] = [kind |-> "AllreduceExt", root |-> -1,
                                  data |-> <<>>]]
  /\ npc' = [npc EXCEPT ![p] = "AllreduceExt"]
  /\ UNCHANGED <<engineVars, runVars, da, pc, j, iMesh, md, collLog, amr,
                 topdim, childData, worksize, workresults, nesting>>

\* The reduction of the extent tables delivers on every rank.
AllreduceExt_Deliver ==
  /\ \A p \in Procs : post[p].kind = "AllreduceExt"
  /\ allext' = [p \in Procs |-> ReduceMax(allext, p)]
  /\ post' = [p \in Procs |-> NoPost]
  /\ npc' = [p \in Procs |-> "reduced"]
  /\ UNCHANGED <<engineVars, runVars, da, meshData, pc, j, iMesh, md, collLog,
                 amr, topdim, childData, worksize, workresults, nesting>>

\* topdim, the work list, this rank's share and its children; the rank
\* enters the MPI_Allreduce of the buffer sizes.
GDN_ComputeChildren(p) ==
  /\ npc[p] = "reduced"
  /\ topdim' = [topdim EXCEPT
                  ![p] = IF allext[p][6] - allext[p][5] > 1 THEN 3 ELSE 2]
  /\ LET cd == ChildData(amr, allext[p], MyWork(Work(amr.blocks), p, NumProcs))
     IN /\ childData' = [childData EXCEPT ![p] = cd]
        /\ worksize' = [worksize EXCEPT
             ![p] = [r \in 1..NumProcs |->
                       IF r - 1 = p THEN Len(cd) ELSE 0]]
  /\ post' = [post EXCEPT ![p] = [kind |-> "AllreduceSize", root |-> -1,
                                  data |-> <<>>]]
  /\ npc' = [npc EXCEPT ![p] = "AllreduceSize"]
  /\ UNCHANGED <<engineVars, runVars, da, meshData, pc, j, iMesh, md, collLog,
                 amr, allext, workresults, nesting>>

\* The reduction of the buffer sizes delivers on every rank.
AllreduceSize_Deliver ==
  /\ \A p \in Procs : post[p].kind = "AllreduceSize"
  /\ worksize' = [p \in Procs |-> ReduceMax(worksize, p)]
  /\ post' = [p \in Procs |-> NoPost]
  /\ npc' = [p \in Procs |-> "sized"]
  /\ UNCHANGED <<engineVars, runVars, da, meshData, pc, j, iMesh, md, collLog,
                 amr, allext, topdim, childData, workresults, nesting>>

\* childData gets one more element and the rank enters MPI_Allgatherv.
GDN_Allgatherv(p) ==
  /\ npc[p] = "sized"
  /\ childData' = [childData EXCEPT ![p] = Append(@, 0)]
  /\ post' = [post EXCEPT ![p] = [kind |-> "Allgatherv", root |-> -1,
                                  data |-> <<>>]]
  /\ npc' = [npc EXCEPT ![p] = "Allgatherv"]
  /\ UNCHANGED <<engineVars, runVars, da, meshData, pc, j, iMesh, md, collLog,
                 amr, allext, topdim, worksize, workresults, nesting>>

\* The variable-length all-gather delivers: every rank receives
\* worksize[r] elements of every rank r, in rank order.
Allgatherv_Deliver ==
  /\ \A p \in Procs : post[p].kind = "Allgatherv"
  /\ workresults' = [p \in Procs |-> GatherFrom(childData, worksize[p], 0)]
  /\ post' = [p \in Procs |-> NoPost]
  /\ npc' = [p \in Procs |-> "gathered"]
  /\ UNCHANGED <<engineVars, runVars, da, meshData, pc, j, iMesh, md, collLog,
                 amr, allext, topdim, childData, worksize, nesting>>

\* The gathered triples and the patches of the last level are handed to
\* VisIt_DomainNesting_set_nestingForPatch, and the handle is returned.
GDN_Emit(p) ==
  /\ npc[p] = "gathered"
  /\ nesting' = [nesting EXCEPT
        ![p] = EmitTriples(amr, allext[p], workresults[p], 1)
               \o EmitLeaves(amr, allext[p])]
  /\ npc' = [npc EXCEPT ![p] = "done"]
  /\ UNCHANGED <<engineVars, runVars, da, meshData, pc, j, post, iMesh, md,
                 collLog, amr, allext, topdim, childData, worksize,
                 workresults>>

\* Every rank has returned from the request; the engine makes the request
\* again on the unchanged dataset.  The buffers of the first request were
\* deleted, the cache is as the first request left it.
GDN_Again ==
  /\ \A p \in Procs : npc[p] \in {"done", "skipped"}
  /\ run < MaxRuns
  /\ run' = run + 1
  /\ prevResult' = [p \in Procs |->
                      [npc |-> npc[p], nesting |-> nesting[p],
                       topdim |-> topdim[p]]]
  /\ npc' = [p \in Procs |-> "start"]
  /\ allext' = [p \in Procs |-> <<>>]
  /\ topdim' = [p \in Procs |-> 0]
  /\ childData' = [p \in Procs |-> <<>>]
  /\ worksize' = [p \in Procs |-> <<>>]
  /\ workresults' = [p \in Procs |-> <<>>]
  /\ nesting' = [p \in Procs |-> <<>>]
  /\ UNCHANGED <<engineVars, da, meshData, metaVars, amr>>

\* The hierarchies of the nesting specification.
BlockShapes ==
  {b \in UNION {[1..n -> 1..MaxPatches] : n \in 1..MaxLevels} :
     SeqSum(b) <= MaxPatches}

OwnerPatterns(n) ==
  { [i \in 1..n |-> (i - 1) % NumProcs],
    [i \in 1..n |-> i % NumProcs],
    [i \in 1..n |-> IF i = 1 THEN 0 ELSE 1],
    [i \in 1..n |-> LastRank],
    [i \in 1..n |-> 0],
    [i \in 1..n |-> IF i = n THEN NoRank ELSE (i - 1) % NumProcs] }

BoxChoices(b) ==
  {bx \in [1..SeqSum(b) -> CoarseBoxes \cup FineBoxes] :
     \A i \in 1..SeqSum(b) :
       CASE LevelOf(b, i - 1) = 0 -> bx[i] \in CoarseBoxes
         [] LevelOf(b, i - 1) = 1 -> bx[i] \in FineBoxes
         [] OTHER -> bx[i] \in DeepBoxes}

Hierarchies ==
  UNION {{[blocks |-> b, ratio |-> r, box |-> bx, owner |-> ow] :
            r \in Ratios, bx \in BoxChoices(b),
            ow \in OwnerPatterns(SeqSum(b))} : b \in BlockShapes}

\* The patches rank p holds, in the order of their composite index.
RECURSIVE OwnedFrom(_, _, _)
OwnedFrom(a, p, i) ==
  IF i >= GetTotalNumberOfBlocks(a.blocks) THEN <<>>
  ELSE (IF a.owner[i + 1] = p THEN <<i>> ELSE <<>>) \o OwnedFrom(a, p, i + 1)

\* What the data adaptor serves for the hierarchy a.
AdaptorOf(a, obj, ghost) ==
  [m \in MeshNames |->
     Opt(obj, "vtkImageData", <<4, 4, 1>>, ghost, a.blocks,
         [p \in Procs |-> OwnedFrom(a, p, 0)])]

\* The cache after the metadata pass of the cycle has populated the mesh.
CacheAfterMetaData(d, p) ==
  LET cache == AddMeshDataCacheEntry(EmptyMap, NestMesh,
                 DatasetIds(d[NestMesh], p),
                 [r \in Procs |-> Len(DatasetIds(d[NestMesh], r))])
  IN [cache EXCEPT ![NestMesh].datasetsHaveGhostCells =
        d[NestMesh].ghost /\ d[NestMesh].obj = "vtkOverlappingAMR"]

Scenario4 ==
  [blocks |-> <<1, 2>>, ratio |-> 2,
   box |-> <<Boxes[1], Boxes[2], Boxes[3]>>, owner |-> <<0, 1, 1>>]

NestStart ==
  /\ npc = [p \in Procs |-> "start"]
  /\ allext = [p \in Procs |-> <<>>]
  /\ topdim = [p \in Procs |-> 0]
  /\ childData = [p \in Procs |-> <<>>]
  /\ worksize = [p \in Procs |-> <<>>]
  /\ workresults = [p \in Procs |-> <<>>]
  /\ nesting = [p \in Procs |-> <<>>]
  /\ run = 1
  /\ prevResult = [p \in Procs |-> NoResult]

InitNest ==
  /\ amr \in Hierarchies
  /\ \/ da = AdaptorOf(amr, "vtkOverlappingAMR", FALSE)
     \/ /\ amr = Scenario4
        /\ da \in {AdaptorOf(amr, "vtkOverlappingAMR", TRUE),
                    AdaptorOf(amr, "vtkMultiBlockDataSet", FALSE)}
  /\ \/ meshData = [p \in Procs |-> CacheAfterMetaData(da, p)]
     \/ /\ amr = Scenario4
        /\ meshData = [p \in Procs |-> EmptyMap]
  /\ MetaIdle
  /\ NestStart
  /\ CallbackIdle
  /\ ExecIdle
  /\ NamesIdle
  /\ ConvIdle
  /\ MeshIdle
  /\ WorkIdle
  /\ InterIdle

NextNest ==
  \/ \E p \in Procs : GDN_Skip(p)
  \/ \E p \in Procs : GDN_FillExtents(p)
  \/ AllreduceExt_Deliver
  \/ \E p \in Procs : GDN_ComputeChildren(p)
  \/ AllreduceSize_Deliver
  \/ \E p \in Procs : GDN_Allgatherv(p)
  \/ Allgatherv_Deliver
  \/ \E p \in Procs : GDN_Emit(p)
  \/ GDN_Again

SpecNest == InitNest /\ [][NextNest]_vars

\* ------------------------------------------------------------------------
\* The cache operations as the engine's requests drive them.
\* ------------------------------------------------------------------------
\* The data adaptors of the cache specification: the mesh options, rotated.
RotatedAdaptor(k) ==
  [m \in MeshNames |-> MeshOptions[((m + k) % NumOptions) + 1]]

InitCache ==
  /\ da \in {RotatedAdaptor(k) : k \in 0..(NumOptions - 1)}
  /\ meshData = [p \in Procs |-> EmptyMap]
  /\ MetaIdle
  /\ NestIdle
  /\ CallbackIdle
  /\ ExecIdle
  /\ NamesIdle
  /\ ConvIdle
  /\ MeshIdle
  /\ WorkIdle
  /\ InterIdle

\* Every rank calls AddMeshDataCacheEntry for the same mesh with the ids of
\* its own leaves, and the all-gather delivers.
Cache_AddMeshDataCacheEntry(m) ==
  /\ cb = NoCall
  /\ IsComposite(da[m]) \/ IsDataSet(da[m])
  /\ meshData' = [p \in Procs |->
        AddMeshDataCacheEntry(meshData[p], m, DatasetIds(da[m], p),
          [r \in Procs |-> Len(DatasetIds(da[m], r))])]
  /\ UNCHANGED <<engineVars, da, metaVars, nestVars>>

\* FetchMesh on rank p; da->GetMesh fails or succeeds.
Cache_FetchMesh(p, m) ==
  /\ cb = NoCall
  /\ \E failed \in BOOLEAN :
       meshData' = [meshData EXCEPT
                      ![p] = FetchMesh(meshData[p], m, failed, da[m], p)]
  /\ UNCHANGED <<engineVars, da, metaVars, nestVars>>

\* The mesh of MeshNames that has the name str; 0 when there is none.
MeshOfName_FirstWhenNone(str) ==
  IF \E m \in MeshNames : MeshStr(m) = str
  THEN CHOOSE m \in MeshNames : MeshStr(m) = str
  ELSE 1

MeshOfName(str) ==
  IF \E m \in MeshNames : MeshStr(m) = str
  THEN CHOOSE m \in MeshNames : MeshStr(m) = str
  ELSE 0

\* The leaf classes vtkDataSet_to_VisIt_Mesh converts.
ConvertibleClasses ==
  {"vtkImageData", "vtkRectilinearGrid", "vtkStructuredGrid",
   "vtkPolyData", "vtkUnstructuredGrid"}

\* The GetMesh callback on rank p for global domain dom of mesh m.  A rank
\* that does not own dom returns the invalid handle.  Otherwise the leaf
\* is fetched when it is not cached yet, and converted; a leaf that is
\* still null after the fetch is dereferenced by the conversion.
Cache_GetMesh(p, m, dom) ==
  LET localdomain == GetLocalDomain(meshData[p], m, dom)
      fetch == /\ localdomain >= 0
               /\ GetDataSet(meshData[p], m, localdomain) = nullptr
  IN /\ cb = NoCall
     /\ \E failed \in (IF fetch THEN BOOLEAN ELSE {FALSE}) :
          LET cache == IF fetch
                       THEN FetchMesh(meshData[p], m, failed, da[m], p)
                       ELSE meshData[p]
              ds == GetDataSet(cache, m, localdomain)
          IN /\ meshData' = [meshData EXCEPT ![p] = cache]
             /\ cb' = [NoCall EXCEPT
                   !.op = "GetMesh", !.rank = p, !.meshName = MeshStr(m),
                   !.localdomain = localdomain,
                   !.h = IF localdomain < 0 THEN "VISIT_INVALID_HANDLE"
                         ELSE IF ds = nullptr THEN "crash"
                         ELSE IF da[m].leaf \in ConvertibleClasses
                              THEN "mesh"
                         ELSE "VISIT_INVALID_HANDLE",
                   !.daCalls = IF fetch THEN <<"GetMesh">> ELSE <<>>,
                   !.changed = (cache # meshData[p])]
     /\ UNCHANGED <<execVars, fnVars, da, metaVars, nestVars>>

\* The GetVariable callback on rank p for global domain dom and the
\* external variable name varName.  A rank that does not own dom returns
\* the invalid handle.  Otherwise the cached leaf is dereferenced (null
\* when it was never fetched), the array is looked up on it, requested
\* from the data adaptor when absent, and wrapped.  An association the
\* resolver left unset is read uninitialized: either branch is taken.
Cache_GetVariable(p, varName, dom) ==
  LET info == GetArrayInfoFromVariableName(varName, GetMeshNames,
                                           ArraysOfAdaptor)
      m == MeshOfName(info.meshName)
      localdomain == GetLocalDomain(meshData[p], m, dom)
      ds == GetDataSet(meshData[p], m, localdomain)
      hit == localdomain >= 0 /\ ds # nullptr
  IN /\ cb = NoCall
     /\ \E association \in (IF hit /\ info.association = "unset"
                             THEN {"POINTS", "CELLS"}
                             ELSE {info.association}),
           present \in (IF hit THEN BOOLEAN ELSE {FALSE}),
           added \in (IF hit THEN BOOLEAN ELSE {FALSE}) :
          LET exists == info.var \in SeqToSet(
                          GetArrayNames(ArraysOfAdaptor, info.meshName,
                                        association))
          IN /\ cb' = [NoCall EXCEPT
                   !.op = "GetVariable", !.rank = p, !.name = varName,
                   !.meshName = info.meshName,
                   !.localdomain = localdomain,
                   !.h = IF localdomain < 0 THEN "VISIT_INVALID_HANDLE"
                         ELSE IF ds = nullptr THEN "crash"
                         ELSE IF exists /\ (present \/ added)
                              THEN "variable"
                         ELSE "VISIT_INVALID_HANDLE",
                   !.daCalls = info.daCalls
                               \o (IF hit /\ ~(exists /\ present)
                                   THEN <<"AddArray">> ELSE <<>>)]
     /\ UNCHANGED <<execVars, fnVars, da, meshData, metaVars, nestVars>>

\* GetDomainList on one rank: the domain list handle with the global ids
\* of the rank's domains and the total number of domains.
GetDomainList(cache, meshName) ==
  [h |-> "domainlist",
   size |-> Len(GetDomains(cache, meshName)),
   domains |-> GetDomains(cache, meshName),
   total |-> GetTotalDomains(cache, meshName)]

\* The GetDomainList callback on rank p for mesh m.
Cache_GetDomainList(p, m) ==
  /\ cb = NoCall
  /\ cb' = [NoCall EXCEPT
        !.op = "GetDomainList", !.rank = p, !.meshName = MeshStr(m),
        !.h = GetDomainList(meshData[p], m).h,
        !.size = GetDomainList(meshData[p], m).size,
        !.total = GetDomainList(meshData[p], m).total]
  /\ UNCHANGED <<execVars, fnVars, da, meshData, metaVars, nestVars>>

\* The engine takes the handle the callback returned.
Cache_Return ==
  /\ cb # NoCall
  /\ cb' = NoCall
  /\ UNCHANGED <<execVars, fnVars, da, meshData, metaVars, nestVars>>

\* ClearMeshDataCache on rank p.
Cache_ClearMeshDataCache(p) ==
  /\ cb = NoCall
  /\ meshData' = [meshData EXCEPT ![p] = ClearMeshDataCache(meshData[p])]
  /\ UNCHANGED <<engineVars, da, metaVars, nestVars>>

DomainIds == 0..NumProcs

\* The meshes the engine asks for.
RequestedMeshes == {m \in MeshNames : m <= 2}

\* The external variable names the engine asks for.
RequestedVars ==
  {<<"a">>, <<"cell_", "a">>}
    \cup {MeshStr(m) \o <<"/">> \o v :
            m \in RequestedMeshes,
            v \in {<<"a">>, <<"b">>, <<"cell_", "a">>, <<"c">>}}

NextCache ==
  \/ \E m \in RequestedMeshes : Cache_AddMeshDataCacheEntry(m)
  \/ \E p \in Procs, m \in RequestedMeshes : Cache_FetchMesh(p, m)
  \/ \E p \in Procs, m \in RequestedMeshes, dom \in DomainIds :
       Cache_GetMesh(p, m, dom)
  \/ \E p \in Procs, varName \in RequestedVars, dom \in DomainIds :
       Cache_GetVariable(p, varName, dom)
  \/ \E p \in Procs, m \in RequestedMeshes : Cache_GetDomainList(p, m)
  \/ Cache_Return
  \/ \E p \in Procs : Cache_ClearMeshDataCache(p)

SpecCache == InitCache /\ [][NextCache]_vars

\* ------------------------------------------------------------------------
\* The external variable names: the metadata pass exposes them and
\* GetArrayInfoFromVariableName resolves them.
\* ------------------------------------------------------------------------
\* The array names a data adaptor may report.
ArrayNames == {<<"a">>, <<"b">>, <<"cell_", "a">>}

\* The vectors of at most n different names of S.
RECURSIVE VectorsOf(_, _)
VectorsOf(S, n) ==
  IF n = 0 THEN {<<>>}
  ELSE LET shorter == VectorsOf(S, n - 1)
       IN shorter \cup {Append(v, x) : v \in shorter, x \in S}

ArrayVectors ==
  {v \in VectorsOf(ArrayNames, MaxArrays) :
     \A i, k \in 1..Len(v) : i # k => v[i] # v[k]}

\* da->GetMeshNames and da->GetArrayNames of the adaptor a: every mesh has
\* the same point arrays and the same cell arrays.
MeshNamesOf(nMeshes) == [m \in 1..nMeshes |-> MeshStr(m)]

ArraysOf(a) ==
  [n \in SeqToSet(a.meshNames) |->
     [POINTS |-> a.POINTS, CELLS |-> a.CELLS]]

\* The variable metadata of meshes k..nMeshes in the order of the loop.
RECURSIVE ExposedFrom(_, _)
ExposedFrom(a, k) ==
  IF k > Len(a.meshNames) THEN <<>>
  ELSE VariableMetaData(Len(a.meshNames), a.meshNames[k], ArraysOf(a))
         \o ExposedFrom(a, k + 1)

InitNames ==
  /\ advertised \in [meshNames : {MeshNamesOf(n) : n \in 1..NumMeshes},
                      POINTS : ArrayVectors, CELLS : ArrayVectors]
  /\ namesPc = "start"
  /\ exposed = <<>>
  /\ resolved = NoResolve
  /\ da \in {RotatedAdaptor(0)}
  /\ meshData = [p \in Procs |-> EmptyMap]
  /\ MetaIdle
  /\ NestIdle
  /\ CallbackIdle
  /\ ExecIdle
  /\ ConvIdle
  /\ MeshIdle
  /\ WorkIdle
  /\ InterIdle

namesFrame ==
  <<cbVars, execVars, convVars, meshVars, workVars, da, meshData,
    metaVars, nestVars, interVars>>

\* The variable loops of the metadata pass over every mesh.
Names_GetMetaData ==
  /\ namesPc = "start"
  /\ exposed' = ExposedFrom(advertised, 1)
  /\ namesPc' = "exposed"
  /\ UNCHANGED <<advertised, resolved, namesFrame>>

\* What GetArrayInfoFromVariableName leaves in its outputs for name.
Resolve(i, name) ==
  LET info == GetArrayInfoFromVariableName(name, advertised.meshNames,
                                           ArraysOf(advertised))
  IN [index |-> i, name |-> name, meshName |-> info.meshName,
      var |-> info.var, association |-> info.association]

\* The engine asks for the variable it was told of as exposed[i].
Names_ResolveExposed(i) ==
  /\ namesPc = "exposed"
  /\ i \in 1..Len(exposed)
  /\ resolved' = Resolve(i, exposed[i].name)
  /\ UNCHANGED <<advertised, namesPc, exposed, namesFrame>>

\* The engine asks for some other name.
RequestedNames ==
  {<<"a">>, <<"b">>, <<"c">>, <<"cell_", "a">>, <<"cell_", "c">>,
   <<"cell_", "cell_", "a">>}

Names_ResolveOther(name) ==
  /\ namesPc = "exposed"
  /\ resolved' = Resolve(0, name)
  /\ UNCHANGED <<advertised, namesPc, exposed, namesFrame>>

NextNames ==
  \/ Names_GetMetaData
  \/ \E i \in 1..(2 * MaxArrays * NumMeshes) : Names_ResolveExposed(i)
  \/ \E name \in RequestedNames : Names_ResolveOther(name)

SpecNames == InitNames /\ [][NextNames]_vars

\* ------------------------------------------------------------------------
\* vtkDataSet_to_VisIt_Mesh: the connectivity of a vtkUnstructuredGrid.
\* ------------------------------------------------------------------------
\* celltype_vtk_to_libsim: the table entry of a VTK cell type, "-1" for a
\* type the table does not set.
celltype_vtk_to_libsim(vtkcelltype) ==
  CASE vtkcelltype = "VTK_LINE" -> "VISIT_CELL_BEAM"
    [] vtkcelltype = "VTK_TRIANGLE" -> "VISIT_CELL_TRI"
    [] vtkcelltype = "VTK_QUAD" -> "VISIT_CELL_QUAD"
    [] vtkcelltype = "VTK_TETRA" -> "VISIT_CELL_TET"
    [] vtkcelltype = "VTK_PYRAMID" -> "VISIT_CELL_PYR"
    [] vtkcelltype = "VTK_WEDGE" -> "VISIT_CELL_WEDGE"
    [] vtkcelltype = "VTK_HEXAHEDRON" -> "VISIT_CELL_HEX"
    [] vtkcelltype = "VTK_VERTEX" -> "VISIT_CELL_POINT"
    [] OTHER -> "-1"

\* A cell of the grid: its type and its point ids.
Cell(type, npts) == [type |-> type, pts |-> [i \in 1..npts |-> i - 1]]

CellKinds ==
  {Cell("VTK_VERTEX", 1), Cell("VTK_LINE", 2), Cell("VTK_TRIANGLE", 3),
   Cell("VTK_POLY_VERTEX", 1), Cell("VTK_PIXEL", 4),
   Cell("VTK_EMPTY_CELL", 0)}

Grids == UNION {[1..n -> CellKinds] : n \in 0..MaxCells}

\* ugrid->GetCells()->GetData(): for every cell the number of points and
\* then the point ids.
RECURSIVE VtkConn(_)
VtkConn(cells) ==
  IF cells = <<>> THEN <<>>
  ELSE (<<Len(Head(cells).pts)>> \o Head(cells).pts) \o VtkConn(Tail(cells))

\* GetNumberOfConnectivityEntries
ConnLen(cells) == Len(VtkConn(cells))

\* ugrid->GetCellLocationsArray(): where the cell starts in VtkConn.
Offset(cells, id) == ConnLen(SubSeq(cells, 1, id))

\* A value read behind the end of the connectivity array.
Garbage == {0, 1}

\* The entries one iteration of the loop writes for cell number id; g is
\* what a read behind the end of the array yields.
EntriesOfCell(cells, id, g) ==
  LET vtkconn == VtkConn(cells)
      lsct == celltype_vtk_to_libsim(cells[id + 1].type)
      at == Offset(cells, id) + 1
  IN IF lsct # "-1"
     THEN <<[celltype |-> lsct]>>
            \o [idx \in 1..vtkconn[at] |-> [id |-> vtkconn[at + idx]]]
     ELSE <<[celltype |-> "VISIT_CELL_POINT"],
            [id |-> IF at + 1 <= Len(vtkconn) THEN vtkconn[at + 1] ELSE g]>>

Uninitialized == [uninitialized |-> TRUE]

InitConv ==
  /\ ugrid \in Grids
  /\ convPc = "start"
  /\ cellid = 0
  /\ newconn = <<>>
  /\ lsconn = 0
  /\ hc = NoHandle
  /\ da \in {RotatedAdaptor(0)}
  /\ meshData = [p \in Procs |-> EmptyMap]
  /\ MetaIdle
  /\ NestIdle
  /\ CallbackIdle
  /\ ExecIdle
  /\ NamesIdle
  /\ MeshIdle
  /\ WorkIdle
  /\ InterIdle

convFrame ==
  <<cbVars, execVars, nameVars, meshVars, workVars, da, meshData,
    metaVars, nestVars, interVars>>

\* ncells > 0: newconn = new int[connlen].
Conv_Alloc ==
  /\ convPc = "start"
  /\ Len(ugrid) > 0
  /\ newconn' = [i \in 1..ConnLen(ugrid) |-> Uninitialized]
  /\ convPc' = "loop"
  /\ UNCHANGED <<ugrid, cellid, lsconn, hc, convFrame>>

\* ncells = 0: no connectivity is set.
Conv_NoCells ==
  /\ convPc = "start"
  /\ Len(ugrid) = 0
  /\ convPc' = "nocells"
  /\ UNCHANGED <<ugrid, cellid, newconn, lsconn, hc, convFrame>>

\* One iteration of the loop over the cells.  Writing behind the end of
\* newconn is a buffer overrun.
Conv_Cell ==
  /\ convPc = "loop"
  /\ cellid < Len(ugrid)
  /\ \E g \in (IF Offset(ugrid, cellid) + 2 > ConnLen(ugrid)
                THEN Garbage ELSE {0}) :
       LET w == EntriesOfCell(ugrid, cellid, g)
       IN IF lsconn + Len(w) > Len(newconn)
          THEN /\ convPc' = "overrun"
               /\ UNCHANGED <<newconn, lsconn, cellid>>
          ELSE /\ newconn' = [i \in 1..Len(newconn) |->
                                IF i > lsconn /\ i <= lsconn + Len(w)
                                THEN w[i - lsconn] ELSE newconn[i]]
               /\ lsconn' = lsconn + Len(w)
               /\ cellid' = cellid + 1
               /\ convPc' = "loop"
  /\ UNCHANGED <<ugrid, hc, convFrame>>

\* VisIt_VariableData_setDataI(hc, VISIT_OWNER_VISIT, 1, connlen, newconn)
\* and VisIt_UnstructuredMesh_setConnectivity(mesh, ncells, hc).
Conv_SetConnectivity ==
  /\ convPc = "loop"
  /\ cellid = Len(ugrid)
  /\ hc' = [nTuples |-> ConnLen(ugrid), ncells |-> Len(ugrid),
            set |-> TRUE]
  /\ convPc' = "done"
  /\ UNCHANGED <<ugrid, cellid, newconn, lsconn, convFrame>>

\* VisIt_VariableData_alloc fails: newconn is deleted and the mesh freed.
Conv_AllocFailed ==
  /\ convPc = "loop"
  /\ cellid = Len(ugrid)
  /\ newconn' = <<>>
  /\ convPc' = "failed"
  /\ UNCHANGED <<ugrid, cellid, lsconn, hc, convFrame>>

NextConv ==
  \/ Conv_Alloc
  \/ Conv_NoCells
  \/ Conv_Cell
  \/ Conv_SetConnectivity
  \/ Conv_AllocFailed

SpecConv == InitConv /\ [][NextConv]_vars

\* ------------------------------------------------------------------------
\* vtkDataSet_to_VisIt_Mesh: the conversion of one leaf dataset.
\* ------------------------------------------------------------------------
\* A leaf dataset: its class, whether its point positions (the coordinate
\* arrays of a vtkRectilinearGrid) are set, whether a vtkPolyData has
\* vertex cells and other cells, and the cells of a vtkUnstructuredGrid.
DataSet(class, points, verts, polys, cells) ==
  [class |-> class, points |-> points, verts |-> verts, polys |-> polys,
   cells |-> cells]

DataSets ==
  {DataSet("vtkImageData", TRUE, FALSE, FALSE, <<>>)}
  \cup {DataSet(c, pt, FALSE, FALSE, <<>>) :
          c \in {"vtkRectilinearGrid", "vtkStructuredGrid", "vtkPath"},
          pt \in BOOLEAN}
  \cup {DataSet("vtkPolyData", pt, v, po, <<>>) :
          pt \in BOOLEAN, v \in BOOLEAN, po \in BOOLEAN}
  \cup {DataSet("vtkUnstructuredGrid", pt, FALSE, FALSE, g) :
          pt \in BOOLEAN, g \in Grids}

\* vtkPolyData::GetVerts: the vertex cell array, or the empty cell array
\* of the class when the dataset has none; never a null pointer.
GetVerts(d) == IF d.verts THEN "Verts" ELSE "Dummy"

\* The branch of the if-chain the dataset takes, as the kind of engine
\* mesh the branch allocates; "else" is the final branch.
Branch(d) ==
  CASE d.class = "vtkImageData" -> "RectilinearMesh"
    [] d.class = "vtkRectilinearGrid" -> "RectilinearMesh"
    [] d.class = "vtkStructuredGrid" -> "CurvilinearMesh"
    [] d.class = "vtkPolyData" /\ GetVerts(d) # "nullptr" -> "PointMesh"
    [] d.class = "vtkUnstructuredGrid" -> "UnstructuredMesh"
    [] OTHER -> "else"

\* The number of entries the loop over the cells writes through lsconn.
RECURSIVE EntriesWritten(_)
EntriesWritten(cells) ==
  IF cells = <<>> THEN 0
  ELSE (IF celltype_vtk_to_libsim(Head(cells).type) # "-1"
        THEN 1 + Len(Head(cells).pts) ELSE 2)
       + EntriesWritten(Tail(cells))

InitMesh ==
  /\ dataSet \in DataSets
  /\ meshPc = "start"
  /\ mesh = "VISIT_INVALID_HANDLE"
  /\ allocated = {}
  /\ allocFailed = FALSE
  /\ da \in {RotatedAdaptor(0)}
  /\ meshData = [p \in Procs |-> EmptyMap]
  /\ MetaIdle
  /\ NestIdle
  /\ CallbackIdle
  /\ ExecIdle
  /\ NamesIdle
  /\ ConvIdle
  /\ WorkIdle
  /\ InterIdle

meshFrame ==
  <<cbVars, execVars, nameVars, convVars, workVars, da, meshData,
    metaVars, nestVars, interVars>>

\* The final else: the error is reported and the invalid handle returned.
Mesh_Unsupported ==
  /\ meshPc = "start"
  /\ Branch(dataSet) = "else"
  /\ meshPc' = "returned"
  /\ UNCHANGED <<dataSet, mesh, allocated, allocFailed, meshFrame>>

\* VisIt_RectilinearMesh_alloc, VisIt_CurvilinearMesh_alloc,
\* VisIt_PointMesh_alloc or VisIt_UnstructuredMesh_alloc; when it fails
\* the branch does nothing more.
Mesh_Alloc ==
  /\ meshPc = "start"
  /\ Branch(dataSet) # "else"
  /\ \E ok \in BOOLEAN :
       IF ok
       THEN /\ mesh' = Branch(dataSet)
            /\ allocated' = allocated \cup {Branch(dataSet)}
            /\ meshPc' = "allocated"
            /\ UNCHANGED allocFailed
       ELSE /\ meshPc' = "returned"
            /\ allocFailed' = TRUE
            /\ UNCHANGED <<mesh, allocated>>
  /\ UNCHANGED <<dataSet, meshFrame>>

\* The coordinates of the branch.  vtkImageData: the arrays are computed
\* from the extent, given the buffers and the variable data are allocated.
\* vtkRectilinearGrid and vtkPolyData: a null array or null points leave
\* the coordinates unset.  vtkStructuredGrid and vtkUnstructuredGrid:
\* GetPoints() is dereferenced.  Without coordinates the mesh is freed and
\* the handle reset.
Mesh_Coords ==
  /\ meshPc = "allocated"
  /\ IF dataSet.class \in {"vtkStructuredGrid", "vtkUnstructuredGrid"}
        /\ ~dataSet.points
     THEN /\ meshPc' = "crash"
          /\ UNCHANGED <<mesh, allocated, allocFailed>>
     ELSE \E ok \in (IF dataSet.points THEN BOOLEAN ELSE {TRUE}) :
            IF dataSet.points /\ ok
            THEN /\ meshPc' = IF dataSet.class = "vtkUnstructuredGrid"
                              THEN "coords" ELSE "returned"
                 /\ UNCHANGED <<mesh, allocated, allocFailed>>
            ELSE /\ mesh' = "VISIT_INVALID_HANDLE"
                 /\ allocated' = allocated \ {mesh}
                 /\ allocFailed' = (allocFailed \/ ~ok)
                 /\ meshPc' = "returned"
  /\ UNCHANGED <<dataSet, meshFrame>>

\* The connectivity of a vtkUnstructuredGrid: nothing without cells;
\* otherwise the loop writes into the connlen entries of newconn, and the
\* variable data is allocated or the mesh freed.
Mesh_Connectivity ==
  /\ meshPc = "coords"
  /\ IF dataSet.cells = <<>>
     THEN /\ meshPc' = "returned"
          /\ UNCHANGED <<mesh, allocated, allocFailed>>
     ELSE IF EntriesWritten(dataSet.cells) > ConnLen(dataSet.cells)
     THEN /\ meshPc' = "overrun"
          /\ UNCHANGED <<mesh, allocated, allocFailed>>
     ELSE \E ok \in BOOLEAN :
            IF ok
            THEN /\ meshPc' = "returned"
                 /\ UNCHANGED <<mesh, allocated, allocFailed>>
            ELSE /\ mesh' = "VISIT_INVALID_HANDLE"
                 /\ allocated' = allocated \ {mesh}
                 /\ allocFailed' = TRUE
                 /\ meshPc' = "returned"
  /\ UNCHANGED <<dataSet, meshFrame>>

\* The loop has written behind the end of newconn: the process goes on
\* with a damaged heap, or it does not.
Mesh_Overrun ==
  /\ meshPc = "overrun"
  /\ meshPc' \in {"returned", "crash"}
  /\ UNCHANGED <<dataSet, mesh, allocated, allocFailed, meshFrame>>

NextMesh ==
  \/ Mesh_Unsupported
  \/ Mesh_Alloc
  \/ Mesh_Coords
  \/ Mesh_Connectivity
  \/ Mesh_Overrun

SpecMesh == InitMesh /\ [][NextMesh]_vars

\* ------------------------------------------------------------------------
\* The partition of the work list among the ranks of GetDomainNesting.
\* ------------------------------------------------------------------------
\* The work lists: the composite indices of the patches below the last
\* level are the first indices of the hierarchy.
WorkLists == {[i \in 1..n |-> i - 1] : n \in 0..MaxItems}

Ranks == 0..(commSize - 1)

InitWork ==
  /\ commSize \in 1..MaxRanks
  /\ workList \in WorkLists
  /\ myWork = [r \in Ranks |-> <<>>]
  /\ workPc = [r \in Ranks |-> "start"]
  /\ da \in {RotatedAdaptor(0)}
  /\ meshData = [p \in Procs |-> EmptyMap]
  /\ MetaIdle
  /\ NestIdle
  /\ CallbackIdle
  /\ ExecIdle
  /\ NamesIdle
  /\ ConvIdle
  /\ MeshIdle
  /\ InterIdle

\* Rank r counts the shares, adds up its offset and fills mywork.
Work_Partition(r) ==
  /\ workPc[r] = "start"
  /\ myWork' = [myWork EXCEPT ![r] = MyWork(workList, r, commSize)]
  /\ workPc' = [workPc EXCEPT ![r] = "done"]
  /\ UNCHANGED <<commSize, workList, cbVars, execVars, nameVars, convVars,
                 meshVars, da, meshData, metaVars, nestVars, interVars>>

NextWork == \E r \in Ranks : Work_Partition(r)

SpecWork == InitWork /\ [][NextWork]_vars

\* ------------------------------------------------------------------------
\* Execute_Interactive and ProcessVisItCommand: the polling loop of one
\* Execute call in interactive mode.
\*
\* Rank 0 detects the input of the viewer and broadcasts it; every rank
\* then takes the same branch.  A broadcast is MPI_Bcast with root 0 on
\* this->comm: the root deposits the value and goes on once it is
\* buffered, a receiver waits until the next value of the root arrives.
\* The engine library is taken to do what its interface promises: the
\* engine command of rank 0 calls SlaveProcessCallback before it hands each
\* command it has read to the other ranks, every rank runs that command
\* (and so the command callback) inside VisItProcessEngineCommand, which
\* returns, and VisItAttemptToCompleteConnection gives every rank the
\* same answer.
\* ------------------------------------------------------------------------
VISIT_COMMAND_PROCESS == 0
VISIT_COMMAND_SUCCESS == 1
VISIT_COMMAND_FAILURE == 2

NonRoot == Procs \ {0}

\* The commands the viewer sends to the command callback.
Commands == {"pause", "run", "other"}

CommandSeqs == UNION {[1..n -> Commands] : n \in 0..MaxCommands}

\* What VisItDetectInputWithTimeout can report on rank 0, with what the
\* engine library does next: 0 and 3 are "no input", 1 is a viewer that
\* connects (and the connection completes or not), 2 is input for the
\* engine (the commands it holds, and whether the engine command
\* succeeds), anything else is an error of the detection.
Inputs ==
  {[visitstate |-> v, okay |-> "", cmds |-> <<>>, success |-> FALSE] :
     v \in {-1, 0, 3}}
  \cup
  {[visitstate |-> 1, okay |-> o, cmds |-> <<>>, success |-> FALSE] :
     o \in {"VISIT_OKAY", "VISIT_ERROR"}}
  \cup
  {[visitstate |-> 2, okay |-> "", cmds |-> c, success |-> s] :
     c \in CommandSeqs, s \in BOOLEAN}

NoInput == [visitstate |-> 0, okay |-> "", cmds |-> <<>>, success |-> FALSE]

\* A value in flight: the int that MPI_Bcast carries, which call sent it,
\* what the engine library tells the receiving rank alongside it, and for
\* the last broadcast of ProcessVisItCommand the value rank 0 returns.
VisitStateMsg(in) ==
  [kind |-> "visitstate", val |-> in.visitstate, data |-> in.okay,
   ret |-> -1]

CommandMsg(command, cmd, ret) ==
  [kind |-> "command", val |-> command, data |-> cmd, ret |-> ret]

\* Rank 0 broadcasts: the value is queued for every other rank.
Bcast_Root(m) == [p \in Procs |-> IF p = 0 THEN <<>> ELSE Append(chan[p], m)]

\* The root's broadcast completes while the buffers have room.
CanSend == \A p \in NonRoot : Len(chan[p]) < MaxInFlight

\* ControlCommandCallback: paused after the command cmd.
ControlCommandCallback_RunOnAny(cmd, isPaused) ==
  IF cmd = "pause" THEN TRUE ELSE FALSE

ControlCommandCallback(cmd, isPaused) ==
  IF cmd = "pause" THEN TRUE
  ELSE IF cmd = "run" THEN FALSE
  ELSE isPaused

\* The cases of the switch other than 2: paused after the case.
AfterSwitch(visitstate, okay, isPaused) ==
  IF visitstate = 1 /\ okay = "VISIT_OKAY" THEN TRUE ELSE isPaused

\* What the receive loop of ProcessVisItCommand returns for a command
\* that ends it.
CommandReturn_AlwaysOne(command) == 1

CommandReturn(command) ==
  IF command = VISIT_COMMAND_SUCCESS THEN 1 ELSE 0

\* Case 2 of the switch: paused after ProcessVisItCommand returned ret.
AfterCommand(ret, isPaused) == IF ret = 0 THEN FALSE ELSE isPaused

\* The end of the loop body on rank p: while(this->paused && err == 0),
\* where nothing sets err.
EndIteration(p, newPaused) ==
  /\ paused' = [paused EXCEPT ![p] = newPaused]
  /\ iters' = [iters EXCEPT ![p] = @ + 1]
  /\ eiPc' = [eiPc EXCEPT ![p] = IF newPaused THEN "loop" ELSE "returned"]

\* Initialize has set paused from the mode string, the same on every rank.
InitInter ==
  /\ paused \in {[p \in Procs |-> b] : b \in BOOLEAN}
  /\ eiPc = [p \in Procs |-> "loop"]
  /\ iters = [p \in Procs |-> 0]
  /\ viewer = NoInput
  /\ rpcAt = [p \in Procs |-> 0]
  /\ chan = [p \in Procs |-> <<>>]
  /\ pvcRet = [p \in Procs |-> -1]
  /\ da \in {RotatedAdaptor(0)}
  /\ meshData = [p \in Procs |-> EmptyMap]
  /\ MetaIdle
  /\ NestIdle
  /\ CallbackIdle
  /\ ExecIdle
  /\ NamesIdle
  /\ ConvIdle
  /\ MeshIdle
  /\ WorkIdle

interFrame ==
  <<cbVars, execVars, nameVars, convVars, meshVars, workVars, da, meshData,
    metaVars, nestVars>>

\* Rank 0: one pass of the loop body.  It detects the input, broadcasts
\* visitstate and takes the branch; in case 2 it enters
\* ProcessVisItCommand.
EI_Detect ==
  /\ eiPc[0] = "loop"
  /\ iters[0] < MaxIters
  /\ CanSend
  /\ \E in \in Inputs :
       /\ chan' = Bcast_Root(VisitStateMsg(in))
       /\ IF in.visitstate = 2
            THEN /\ eiPc' = [eiPc EXCEPT ![0] = "command"]
                 /\ viewer' = in
                 /\ rpcAt' = [rpcAt EXCEPT ![0] = 0]
                 /\ UNCHANGED <<paused, iters>>
            ELSE /\ EndIteration(0, AfterSwitch(in.visitstate, in.okay,
                                                paused[0]))
                 /\ UNCHANGED <<viewer, rpcAt>>
  /\ UNCHANGED <<pvcRet, interFrame>>

\* Another rank: one pass of the loop body, with the visitstate it
\* receives.
EI_Receive(p) ==
  /\ p \in NonRoot
  /\ eiPc[p] = "loop"
  /\ chan[p] # <<>>
  /\ LET m == Head(chan[p]) IN
       /\ chan' = [chan EXCEPT ![p] = Tail(@)]
       /\ IF m.val = 2
            THEN /\ eiPc' = [eiPc EXCEPT ![p] = "command"]
                 /\ rpcAt' = [rpcAt EXCEPT ![p] = 0]
                 /\ UNCHANGED <<paused, iters>>
            ELSE /\ EndIteration(p, AfterSwitch(m.val, m.data, paused[p]))
                 /\ UNCHANGED rpcAt
  /\ UNCHANGED <<viewer, pvcRet, interFrame>>

\* Rank 0 inside VisItProcessEngineCommand: the engine has read the next
\* command, calls SlaveProcessCallback, which broadcasts the value 0, and
\* runs the command.
PVC_SlaveProcessCallback ==
  /\ eiPc[0] = "command"
  /\ rpcAt[0] < Len(viewer.cmds)
  /\ CanSend
  /\ LET cmd == viewer.cmds[rpcAt[0] + 1] IN
       /\ chan' = Bcast_Root(CommandMsg(VISIT_COMMAND_PROCESS, cmd, -1))
       /\ paused' = [paused EXCEPT ![0] = ControlCommandCallback(cmd, @)]
  /\ rpcAt' = [rpcAt EXCEPT ![0] = @ + 1]
  /\ UNCHANGED <<eiPc, iters, viewer, pvcRet, interFrame>>

\* Rank 0: VisItProcessEngineCommand has returned; the outcome is
\* broadcast and ProcessVisItCommand returns, then the rest of case 2 and
\* the loop test.
PVC_Root_Return ==
  /\ eiPc[0] = "command"
  /\ rpcAt[0] = Len(viewer.cmds)
  /\ CanSend
  /\ LET command == IF viewer.success THEN VISIT_COMMAND_SUCCESS
                    ELSE VISIT_COMMAND_FAILURE
         ret == IF viewer.success THEN 1 ELSE 0
     IN /\ chan' = Bcast_Root(CommandMsg(command, "", ret))
        /\ pvcRet' = [pvcRet EXCEPT ![0] = ret]
        /\ EndIteration(0, AfterCommand(ret, paused[0]))
  /\ viewer' = NoInput
  /\ UNCHANGED <<rpcAt, interFrame>>

\* Another rank: one pass of the while(1) loop of ProcessVisItCommand.
\* PROCESS runs the command inside VisItProcessEngineCommand; SUCCESS and
\* FAILURE return, then the rest of case 2 and the loop test; any other
\* value matches no case and the loop goes round.
PVC_Receive(p) ==
  /\ p \in NonRoot
  /\ eiPc[p] = "command"
  /\ chan[p] # <<>>
  /\ LET m == Head(chan[p]) IN
       /\ chan' = [chan EXCEPT ![p] = Tail(@)]
       /\ CASE m.val = VISIT_COMMAND_PROCESS ->
                 /\ paused' = [paused EXCEPT
                                 ![p] = ControlCommandCallback(m.data, @)]
                 /\ rpcAt' = [rpcAt EXCEPT ![p] = @ + 1]
                 /\ UNCHANGED <<eiPc, iters, pvcRet>>
            [] m.val \in {VISIT_COMMAND_SUCCESS, VISIT_COMMAND_FAILURE} ->
                 /\ pvcRet' = [pvcRet EXCEPT ![p] = CommandReturn(m.val)]
                 /\ EndIteration(p, AfterCommand(CommandReturn(m.val),
                                                 paused[p]))
                 /\ UNCHANGED rpcAt
            [] OTHER ->
                 UNCHANGED <<paused, eiPc, iters, rpcAt, pvcRet>>
  /\ UNCHANGED <<viewer, interFrame>>

NextInter ==
  \/ EI_Detect
  \/ \E p \in NonRoot : EI_Receive(p)
  \/ PVC_SlaveProcessCallback
  \/ PVC_Root_Return
  \/ \E p \in NonRoot : PVC_Receive(p)

SpecInter == InitInter /\ [][NextInter]_vars

\* The same session under the scheduling the program has: every rank
\* runs, the engine of rank 0 gets through the input it reads, and a
\* broadcast that has a value waiting completes.
FairInter ==
  /\ WF_vars(PVC_SlaveProcessCallback)
  /\ WF_vars(PVC_Root_Return)
  /\ \A p \in NonRoot : WF_vars(EI_Receive(p)) /\ WF_vars(PVC_Receive(p))

SpecInterFair == SpecInter /\ FairInter

\* ------------------------------------------------------------------------
\* Execute: one query cycle after the other.
\* ------------------------------------------------------------------------
Modes == {"batch", "interactive"}

\* The data of the time steps: a different adaptor content at every step.
TimeStepData == {RotatedAdaptor(k) : k \in 0..(NumOptions - 1)}

Running(p) == execPc[p] \in Modes

InitExec ==
  /\ da \in TimeStepData
  /\ meshData = [p \in Procs |-> ClearMeshDataCache(EmptyMap)]
  /\ mode \in Modes
  /\ execPc = [p \in Procs |-> "idle"]
  /\ timestep = 0
  /\ retval = [p \in Procs |-> TRUE]
  /\ cleared = [p \in Procs |-> 0]
  /\ MetaIdle
  /\ NestIdle
  /\ CallbackIdle
  /\ NamesIdle
  /\ ConvIdle
  /\ MeshIdle
  /\ WorkIdle
  /\ InterIdle

\* The simulation calls Execute on every rank with the data adaptor of the
\* new time step; the branch on mode selects Execute_Interactive or
\* Execute_Batch.
Exec_Begin(d) ==
  /\ \A p \in Procs : execPc[p] = "idle"
  /\ cb = NoCall
  /\ timestep < MaxTimeStep
  /\ d # da
  /\ da' = d
  /\ timestep' = timestep + 1
  /\ execPc' = [p \in Procs |-> mode]
  /\ cleared' = [p \in Procs |-> 0]
  /\ UNCHANGED <<cbVars, fnVars, mode, retval, meshData, metaVars, nestVars>>

\* While every rank is inside Execute the engine asks for metadata, which
\* populates the cache entry of a mesh on every rank.
Exec_AddMeshDataCacheEntry(m) ==
  /\ \A p \in Procs : Running(p)
  /\ Cache_AddMeshDataCacheEntry(m)

\* While rank p is inside Execute the engine asks it for a mesh.
Exec_GetMesh(p, m, dom) ==
  /\ Running(p)
  /\ Cache_GetMesh(p, m, dom)

\* The callback returns to the engine unless it has crashed.
Exec_CallbackReturn ==
  /\ cb.h # "crash"
  /\ Cache_Return

\* Execute_Batch returns true or false.
Exec_Batch_Return(p, rv) ==
  /\ execPc[p] = "batch"
  /\ cb = NoCall
  /\ execPc' = [execPc EXCEPT ![p] = "clear"]
  /\ retval' = [retval EXCEPT ![p] = rv]
  /\ UNCHANGED <<cbVars, fnVars, mode, timestep, cleared, da, meshData,
                 metaVars, nestVars>>

\* Execute_Interactive returns true.
Exec_Interactive_Return(p) ==
  /\ execPc[p] = "interactive"
  /\ cb = NoCall
  /\ execPc' = [execPc EXCEPT ![p] = "clear"]
  /\ retval' = [retval EXCEPT ![p] = TRUE]
  /\ UNCHANGED <<cbVars, fnVars, mode, timestep, cleared, da, meshData,
                 metaVars, nestVars>>

\* The call of ClearMeshDataCache that ends Execute, and the return.
Exec_ClearMeshDataCache(p) ==
  /\ execPc[p] = "clear"
  /\ meshData' = [meshData EXCEPT ![p] = ClearMeshDataCache(meshData[p])]
  /\ cleared' = [cleared EXCEPT ![p] = cleared[p] + 1]
  /\ execPc' = [execPc EXCEPT ![p] = "idle"]
  /\ UNCHANGED <<cbVars, fnVars, mode, timestep, retval, da, metaVars,
                 nestVars>>

NextExec ==
  \/ \E d \in TimeStepData : Exec_Begin(d)
  \/ \E m \in RequestedMeshes : Exec_AddMeshDataCacheEntry(m)
  \/ \E p \in Procs, m \in RequestedMeshes, dom \in DomainIds :
       Exec_GetMesh(p, m, dom)
  \/ Exec_CallbackReturn
  \/ \E p \in Procs, rv \in BOOLEAN : Exec_Batch_Return(p, rv)
  \/ \E p \in Procs : Exec_Interactive_Return(p)
  \/ \E p \in Procs : Exec_ClearMeshDataCache(p)

SpecExec == InitExec /\ [][NextExec]_vars

\* ------------------------------------------------------------------------
\* Properties of the metadata pass
\* ------------------------------------------------------------------------
IsBlocked(p) == post[p].kind # "none"
HasReturned(p) == pc[p] \in {"done", "crashed"}

\* Rank p has a cache entry for mesh m whose population is complete.
Populated(p, m) ==
  /\ m \in DOMAIN meshData[p]
  /\ ~(pc[p] = "Allgather" /\ j[p] = m)

\* C1: during one metadata pass every rank issues the same sequence of
\* collective calls for every mesh, also when a request fails on only some
\* of the ranks, and no rank is left blocked in a collective that a peer
\* skipped.
C1_MatchedCollectives ==
  \A p \in Procs : \A q \in Procs :
    /\ \A i \in 1..Len(collLog[p]) :
         i <= Len(collLog[q]) => collLog[p][i] = collLog[q][i]
    /\ ~(HasReturned(p) /\ IsBlocked(q))

\* The schema rank p advertises: name, type, dimensions and domain count
\* of every mesh it added.
Schema(p) ==
  [i \in 1..Len(md[p]) |->
     <<md[p][i].name, md[p][i].meshType, md[p][i].topologicalDimension,
       md[p][i].spatialDimension, md[p][i].numDomains>>]

\* C6: after a metadata pass every rank advertises the identical schema:
\* the same meshes with the same type, dimensions and total domain count.
C6_IdenticalSchema ==
  (\A p \in Procs : pc[p] = "done")
     => \A p \in Procs : \A q \in Procs : Schema(p) = Schema(q)

\* C7: the representative of a mesh is the lowest rank with a positive
\* domain count, every rank computes the same representative for the mesh,
\* and only the representative samples its first data set.
C7_SameLowestRepresentative ==
  \A p \in Procs : \A m \in MeshNames :
    Populated(p, m) =>
      LET rep == bcast_rank(meshData[p][m])
      IN /\ rep # -1 =>
              /\ meshData[p][m].ndoms_per_rank[rep] > 0
              /\ \A r \in Procs :
                   meshData[p][m].ndoms_per_rank[r] > 0 => rep <= r
         /\ \A q \in Procs :
              Populated(q, m) => bcast_rank(meshData[q][m]) = rep
         /\ (pc[p] = "Bcast" /\ j[p] = m /\ post[p].data # iMeshInit)
              => p = rep

\* C8: after a mesh is populated on all ranks, entry r of ndoms_per_rank
\* is on every rank the number of domains rank r passed to the population,
\* and GetTotalDomains returns the sum of the local counts.
C8_CountsPerRank ==
  \A m \in MeshNames :
    (\A p \in Procs : Populated(p, m)) =>
      \A p \in Procs :
        /\ \A r \in Procs :
             meshData[p][m].ndoms_per_rank[r]
               = Len(meshData[r][m].doms_this_rank)
        /\ GetTotalDomains(meshData[p], m)
             = SumTo([r \in Procs |-> Len(meshData[r][m].doms_this_rank)],
                     NumProcs - 1)

\* ------------------------------------------------------------------------
\* Properties of the cache
\* ------------------------------------------------------------------------

\* C9: in every reachable state of the cache every entry has as many leaf
\* data set slots as local domain ids.
C9_SlotsMatchIds ==
  \A p \in Procs : \A m \in DOMAIN meshData[p] :
    Len(meshData[p][m].datasets) = Len(meshData[p][m].doms_this_rank)

\* A rank holds a fetched leaf, and a rank holds a single data set whose
\* fetch found no slot to store it in.
C9_Witness ==
  /\ \E p \in Procs : \E m \in DOMAIN meshData[p] :
       /\ Len(meshData[p][m].datasets) = 2
       /\ meshData[p][m].datasets[2] # nullptr
  /\ \E p \in Procs : \E m \in DOMAIN meshData[p] :
       /\ meshData[p][m].dataObj = "vtkStructuredGrid"
       /\ meshData[p][m].datasets = <<>>

\* C10: for every cached mesh and every global id g of the local domain
\* list, GetLocalDomain returns an index i within the leaf slots with
\* doms_this_rank[i] = g.
C10_LocalDomainRoundTrip ==
  \A p \in Procs : \A m \in DOMAIN meshData[p] :
    LET ids == GetDomains(meshData[p], m)
    IN \A k \in 1..Len(ids) :
         LET i == GetLocalDomain(meshData[p], m, ids[k])
         IN /\ 0 <= i
            /\ i < Len(meshData[p][m].datasets)
            /\ meshData[p][m].doms_this_rank[i + 1] = ids[k]

\* A rank holds a cached mesh with two local domains, the second of which
\* is looked up at local index 1.
C10_Witness ==
  \E p \in Procs : \E m \in DOMAIN meshData[p] :
    /\ Len(GetDomains(meshData[p], m)) = 2
    /\ GetLocalDomain(meshData[p], m, GetDomains(meshData[p], m)[2]) = 1

\* ------------------------------------------------------------------------
\* Properties of the domain nesting
\* ------------------------------------------------------------------------
AllNested == \A p \in Procs : npc[p] = "done"

\* What rank p has emitted: level, set of children and logical extent of
\* every patch.
NestingResult(p) ==
  {<<nesting[p][k].dom, nesting[p][k].level,
     SeqToSet(nesting[p][k].children), nesting[p][k].logicalExt>> :
     k \in 1..Len(nesting[p])}

\* The children rank p has emitted for patch dom.
ChildrenOf(p, dom) ==
  UNION {SeqToSet(nesting[p][k].children) :
           k \in {x \in 1..Len(nesting[p]) : nesting[p][x].dom = dom}}

\* C2: when GetDomainNesting completes, every rank has emitted the same
\* nesting result: for every patch the same level, the same set of
\* children and the same logical extent.
C2_SameNestingOnEveryRank ==
  \A p \in Procs : \A q \in Procs :
    (npc[p] = "done" /\ npc[q] = "done")
       => NestingResult(p) = NestingResult(q)

\* All ranks have completed a hierarchy whose patches are spread over
\* more than one rank and in which some patch has a child.
C2_Witness ==
  /\ AllNested
  /\ \E a \in SeqToSet(amr.owner) : \E b \in SeqToSet(amr.owner) :
       a # b /\ a # NoRank /\ b # NoRank
  /\ \E k \in 1..Len(nesting[0]) : nesting[0][k].children # <<>>

\* Two index ranges overlap when an endpoint of one lies in the other.
RangesOverlap(a0, a1, b0, b1) ==
  \/ in_range(a0, b0, b1) \/ in_range(a1, b0, b1)
  \/ in_range(b0, a0, a1) \/ in_range(b1, a0, a1)

\* The scaled box of the parent overlaps the box of the candidate on every
\* active axis (z is inactive when the scaled parent spans 0..0 in z).
SymmetricOverlap(ext, extChild, ratio) ==
  /\ RangesOverlap(ext[1] * ratio, ext[2] * ratio, extChild[1], extChild[2])
  /\ RangesOverlap(ext[3] * ratio, ext[4] * ratio, extChild[3], extChild[4])
  /\ (ext[5] * ratio # ext[6] * ratio \/ ext[5] * ratio # 0)
       => RangesOverlap(ext[5] * ratio, ext[6] * ratio,
                        extChild[5], extChild[6])

PatchesOfLevel(blocks, level) ==
  {i \in 0..(GetTotalNumberOfBlocks(blocks) - 1) : LevelOf(blocks, i) = level}

\* C3: a patch c of level L+1 is listed as a child of the patch d of level
\* L if and only if the scaled range of d overlaps the range of c on every
\* active axis, overlap being the symmetric test.
C3_ChildIffSymmetricOverlap ==
  \A p \in Procs :
    npc[p] = "done" =>
      \A d \in 0..(GetTotalNumberOfBlocks(amr.blocks) - 1) :
        LevelOf(amr.blocks, d) < GetNumberOfLevels(amr.blocks) - 1 =>
          \A c \in PatchesOfLevel(amr.blocks, LevelOf(amr.blocks, d) + 1) :
            c \in ChildrenOf(p, d)
              <=> SymmetricOverlap(ExtOf(allext[p], d), ExtOf(allext[p], c),
                                   amr.ratio)

\* C4: in the scenario of two ranks, patch 0 on rank 0 and patches 1 and 2
\* on rank 1, every rank reports children {1, 2} for patch 0, no children
\* for patches 1 and 2, and topological dimension 2.
C4_ScenarioResult ==
  \A p \in Procs :
    (amr = Scenario4 /\ npc[p] = "done") =>
      /\ topdim[p] = 2
      /\ ChildrenOf(p, 0) = {1, 2}
      /\ ChildrenOf(p, 1) = {} /\ ChildrenOf(p, 2) = {}
      /\ {nesting[p][k].dom : k \in 1..Len(nesting[p])} = {0, 1, 2}

\* The scenario has run to completion on every rank.
C4_Witness == amr = Scenario4 /\ AllNested

\* C5: a completed GetDomainNesting emits exactly one record for every
\* patch: from the gathered triples for a patch below the last level, from
\* the leaf loop for a patch of the last level.
C5_OneRecordPerPatch ==
  \A p \in Procs :
    npc[p] = "done" =>
      /\ Len(nesting[p]) = GetTotalNumberOfBlocks(amr.blocks)
      /\ \A d \in 0..(GetTotalNumberOfBlocks(amr.blocks) - 1) :
           \E k \in 1..Len(nesting[p]) :
             /\ nesting[p][k].dom = d
             /\ \A x \in 1..Len(nesting[p]) :
                  nesting[p][x].dom = d => x = k
             /\ nesting[p][k].from
                  = IF LevelOf(amr.blocks, d)
                         < GetNumberOfLevels(amr.blocks) - 1
                    THEN "triples" ELSE "leaves"

\* All ranks have completed a hierarchy of more than one level that has
\* fewer work items than there are ranks.
C5_Witness ==
  /\ AllNested
  /\ GetNumberOfLevels(amr.blocks) >= 2
  /\ Len(Work(amr.blocks)) < NumProcs

\* ------------------------------------------------------------------------
\* Properties of the data callbacks
\* ------------------------------------------------------------------------

\* Rank p does not own global domain g of mesh m, or has no entry for m.
NotOwned(p, m, g) ==
  \/ m \notin DOMAIN meshData[p]
  \/ g \notin SeqToSet(meshData[p][m].doms_this_rank)

\* GetLocalDomain returns -1 for every domain the rank does not own.
MissIsNotFound ==
  \A p \in Procs : \A m \in MeshNames \cup {0} : \A g \in DomainIds :
    NotOwned(p, m, g) => GetLocalDomain(meshData[p], m, g) = -1

IsMiss == cb.op \in {"GetMesh", "GetVariable"} /\ cb.localdomain = -1

\* C11: when the rank does not own domain g of a mesh, or the mesh has no
\* cache entry, GetLocalDomain returns -1, and GetMesh and GetVariable
\* return the invalid handle without any call to the data adaptor and
\* without changing the cache.
C11_MissCallsNothing ==
  /\ MissIsNotFound
  /\ IsMiss => /\ cb.h = "VISIT_INVALID_HANDLE"
               /\ cb.daCalls = <<>>
               /\ ~cb.changed

\* C11 (amended): when the rank does not own domain g of a mesh, or the
\* mesh has no cache entry, GetLocalDomain returns -1, and GetMesh and
\* GetVariable return the invalid handle without requesting a mesh or an
\* array from the data adaptor and without changing the cache; GetVariable
\* still asks the data adaptor for the mesh names, and for the array names
\* when it has to find the association.
C11_MissFetchesNothing ==
  /\ MissIsNotFound
  /\ IsMiss => /\ cb.h = "VISIT_INVALID_HANDLE"
               /\ SeqToSet(cb.daCalls) \subseteq
                    (IF cb.op = "GetVariable"
                     THEN {"GetMeshNames", "GetArrayNames"} ELSE {})
               /\ ~cb.changed

\* GetVariable has missed on a rank that has the mesh cached but does not
\* own the domain.
C11_Witness ==
  /\ cb.op = "GetVariable" /\ cb.localdomain = -1
  /\ MeshOfName(cb.meshName) \in DOMAIN meshData[cb.rank]
  /\ \E q \in Procs :
       /\ MeshOfName(cb.meshName) \in DOMAIN meshData[q]
       /\ meshData[q][MeshOfName(cb.meshName)].doms_this_rank # <<>>

\* C12: when the data adaptor returns a single (non-composite) data set
\* for a mesh, the population of the cache records it as domain 0: the
\* local domain ids are <<0>>, there is exactly one leaf slot and the rank
\* contributes a count of 1 to ndoms_per_rank.
C12_SingleDatasetIsDomain0 ==
  \A p \in Procs : \A m \in DOMAIN meshData[p] :
    IsDataSet(da[m]) =>
      /\ meshData[p][m].doms_this_rank = <<0>>
      /\ Len(meshData[p][m].datasets) = 1
      /\ meshData[p][m].ndoms_per_rank[p] = 1

\* C13: a rank that owns no domain of a cached mesh answers GetDomainList
\* with a valid domain list of zero local ids whose total number of
\* domains is the sum of the domain counts of all ranks.
C13_EmptyListRightTotal ==
  \A p \in Procs : \A m \in MeshNames :
    (/\ \A r \in Procs : Populated(r, m)
     /\ meshData[p][m].doms_this_rank = <<>>)
    => /\ GetDomainList(meshData[p], m).h = "domainlist"
       /\ GetDomainList(meshData[p], m).size = 0
       /\ GetDomainList(meshData[p], m).total
            = SumTo([r \in Procs |-> Len(meshData[r][m].doms_this_rank)],
                    NumProcs - 1)

\* ------------------------------------------------------------------------
\* Properties of the metadata of several meshes
\* ------------------------------------------------------------------------

\* Some rank owns a domain of mesh m and the type of m is recognised.
Healthy(m) ==
  /\ \E r \in Procs : DatasetIds(da[m], r) # <<>>
  /\ SampleMesh(da[m])[1] \in SupportedTypes

\* The meshes rank p has put into md.
MeshesOf(p) == {md[p][i].name : i \in 1..Len(md[p])}

\* C14: a failure on one mesh (its structure cannot be retrieved, no rank
\* owns a domain of it, or its type is not recognised) omits only that
\* mesh and its variables: the pass returns a metadata object that holds
\* the mesh and the variables of every other mesh.
C14_OnlyTheFailedMeshIsOmitted ==
  \A p \in Procs :
    /\ pc[p] # "crashed"
    /\ pc[p] = "done" =>
         \A m \in MeshNames :
           (m \in DOMAIN meshData[p] /\ Healthy(m)) =>
             \E i \in 1..Len(md[p]) :
               /\ md[p][i].name = m
               /\ md[p][i].variables
                    = VariableMetaData(NumMeshes, MeshStr(m),
                                       ArraysOfAdaptor)

\* ------------------------------------------------------------------------
\* Properties of Execute
\* ------------------------------------------------------------------------

\* The entry of mesh m in the cache of rank p was made from the data of the
\* current time step.
FromThisCycle(p, m) ==
  /\ meshData[p][m].doms_this_rank = DatasetIds(da[m], p)
  /\ meshData[p][m].ndoms_per_rank
       = [r \in Procs |-> Len(DatasetIds(da[m], r))]
  /\ meshData[p][m].dataObj \in {"nullptr", da[m].obj}

\* C15: every Execute call, in batch and in interactive mode and whatever
\* it returns, clears the mesh cache exactly once at its end: the cache of
\* a rank is empty whenever the rank is not inside Execute, and inside
\* Execute it holds no entry of an earlier cycle.
C15_ClearedOncePerExecute ==
  \A p \in Procs :
    /\ execPc[p] = "idle" => meshData[p] = EmptyMap
    /\ (execPc[p] = "idle" /\ timestep > 0) => cleared[p] = 1
    /\ execPc[p] \in Modes \cup {"clear"} =>
         /\ cleared[p] = 0
         /\ \A m \in DOMAIN meshData[p] : FromThisCycle(p, m)

\* In the second cycle one rank has returned false from Execute with an
\* empty cache while another is about to clear a cache that holds a
\* fetched mesh.
C15_Witness ==
  /\ timestep = 2
  /\ \E p \in Procs :
       execPc[p] = "idle" /\ retval[p] = FALSE /\ cleared[p] = 1
  /\ \E p \in Procs :
       /\ execPc[p] = "clear"
       /\ \E m \in DOMAIN meshData[p] :
            meshData[p][m].dataObj # "nullptr"

\* ------------------------------------------------------------------------
\* Properties of the external variable names
\* ------------------------------------------------------------------------

\* C16: the external name the metadata pass exposes for an advertised
\* (mesh name, array name, association) is resolved back to exactly that
\* mesh name, array name and association, with one mesh and with several.
C16_ExposedNameRoundTrip ==
  resolved.index > 0 =>
    /\ resolved.meshName = exposed[resolved.index].meshName
    /\ resolved.var = exposed[resolved.index].array
    /\ resolved.association = exposed[resolved.index].association

\* C17: the external names one metadata pass exposes are pairwise
\* distinct, also when array names themselves begin with "cell_".
C17_ExposedNamesDistinct ==
  namesPc = "exposed" =>
    \A i, k \in 1..Len(exposed) :
      i # k => exposed[i].name # exposed[k].name

\* C18: with more than one mesh, a requested external name without "/"
\* is not resolved to any mesh, and GetVariable returns the invalid handle
\* without accessing a dataset or the cache and without crashing.
C18_NoSeparatorIsInvalid ==
  (/\ cb.op = "GetVariable"
   /\ Len(GetMeshNames) > 1
   /\ \A i \in 1..Len(cb.name) : cb.name[i] # "/") =>
    /\ cb.meshName = EmptyString
    /\ cb.localdomain = -1
    /\ cb.h = "VISIT_INVALID_HANDLE"
    /\ ~cb.changed
    /\ cb.daCalls = <<"GetMeshNames">>

\* GetVariable is asked for a name without "/" on a rank whose cache holds
\* a fetched dataset of the domain asked for.
C18_Witness ==
  /\ cb.op = "GetVariable"
  /\ cb.name = <<"cell_", "a">>
  /\ \E m \in DOMAIN meshData[cb.rank] :
       \E i \in 1..Len(meshData[cb.rank][m].datasets) :
         meshData[cb.rank][m].datasets[i] # nullptr

\* C19: with a single mesh, an external name beginning with "cell_"
\* resolves to cell association with the prefix stripped; any other name
\* resolves to point association if it is a point array name, otherwise
\* to cell association if it is a cell array name, and its association is
\* left undetermined only if it is in neither list.
C19_SingleMeshResolution ==
  (Len(advertised.meshNames) = 1 /\ resolved # NoResolve) =>
    LET name == resolved.name
    IN /\ resolved.meshName = advertised.meshNames[1]
       /\ IF name[1] = "cell_"
          THEN /\ resolved.association = "CELLS"
               /\ resolved.var = Tail(name)
          ELSE /\ resolved.var = name
               /\ resolved.association =
                    IF name \in SeqToSet(advertised.POINTS) THEN "POINTS"
                    ELSE IF name \in SeqToSet(advertised.CELLS) THEN "CELLS"
                    ELSE "unset"

\* With a single mesh, a name that begins with "cell_" and is itself a
\* point array name has been resolved to the cell array without the
\* prefix.
C19_Witness ==
  /\ Len(advertised.meshNames) = 1
  /\ resolved.name = <<"cell_", "a">>
  /\ resolved.name \in SeqToSet(advertised.POINTS)
  /\ resolved.association = "CELLS"
  /\ resolved.var = <<"a">>

\* ------------------------------------------------------------------------
\* Properties of the connectivity conversion
\* ------------------------------------------------------------------------

\* The number of points of output cell number id (from 0): the points of
\* the cell, or one for a cell whose type the table does not hold.
OutputPoints(cells, id) ==
  IF celltype_vtk_to_libsim(cells[id + 1].type) # "-1"
  THEN Len(cells[id + 1].pts)
  ELSE 1

RECURSIVE OutputEntries(_, _)
OutputEntries(cells, n) ==
  IF n = 0 THEN 0
  ELSE OutputEntries(cells, n - 1) + 1 + OutputPoints(cells, n - 1)

\* C20: the connectivity array handed to the engine has a declared length
\* equal to the number of entries the conversion wrote, the sum over the
\* output cells of 1 + the cell's point count, also when cells of a type
\* absent from the table were replaced by single-point cells.
C20_DeclaredLengthIsWritten ==
  /\ convPc # "overrun"
  /\ convPc = "done" =>
       /\ hc.nTuples = lsconn
       /\ lsconn = OutputEntries(ugrid, Len(ugrid))

\* The cells that the first n entries of conn hold: every cell type entry
\* begins a cell, the ids after it are the points of the cell.
RECURSIVE CellsOf(_, _)
CellsOf(conn, n) ==
  IF n = 0 THEN <<>>
  ELSE LET front == CellsOf(conn, n - 1)
       IN IF "celltype" \in DOMAIN conn[n]
          THEN Append(front, [celltype |-> conn[n].celltype, ids |-> <<>>])
          ELSE [front EXCEPT ![Len(front)].ids = Append(@, conn[n].id)]

\* C21: the conversion never fails because of a cell type that is absent
\* from the table: such a cell is emitted as one vertex cell referencing
\* the cell's first point, the output has as many cells as the input and
\* output cell k corresponds to input cell k.
C21_UnsupportedCellBecomesVertex ==
  /\ convPc # "overrun"
  /\ convPc = "done" =>
       LET out == CellsOf(newconn, lsconn)
       IN /\ hc.ncells = Len(ugrid)
          /\ Len(out) = Len(ugrid)
          /\ \A k \in 1..Len(ugrid) :
               IF celltype_vtk_to_libsim(ugrid[k].type) # "-1"
               THEN /\ out[k].celltype
                        = celltype_vtk_to_libsim(ugrid[k].type)
                    /\ out[k].ids = ugrid[k].pts
               ELSE /\ out[k].celltype = "VISIT_CELL_POINT"
                    /\ Len(ugrid[k].pts) >= 1
                    /\ out[k].ids = <<ugrid[k].pts[1]>>

\* ------------------------------------------------------------------------
\* Further properties of GetDomainNesting
\* ------------------------------------------------------------------------

\* Every rank has returned from the request it is serving.
AllReturned == \A p \in Procs : npc[p] \in {"done", "skipped"}

\* C22: GetDomainNesting made twice on an unchanged AMR dataset yields
\* the same result: a rank that returned a nesting from the first request
\* returns from the second one the same records, with the same children
\* and logical extent for every patch, and the same dimension.
C22_SecondRequestSameResult ==
  \A p \in Procs :
    (run >= 2 /\ AllReturned /\ prevResult[p].npc = "done") =>
      /\ npc[p] = "done"
      /\ nesting[p] = prevResult[p].nesting
      /\ topdim[p] = prevResult[p].topdim

\* The second request has completed on a hierarchy spread over several
\* ranks in which some patch has a child; the first one had to fetch the
\* mesh.
C22_Witness ==
  /\ run = 2
  /\ AllNested
  /\ \A p \in Procs : prevResult[p].npc = "done"
  /\ \E a \in SeqToSet(amr.owner) : \E b \in SeqToSet(amr.owner) :
       a # b /\ a # NoRank /\ b # NoRank
  /\ \E k \in 1..Len(nesting[0]) : nesting[0][k].children # <<>>

\* Rank p has entered the collective calls of the request.
InCollectives(p) ==
  npc[p] \in {"AllreduceExt", "reduced", "AllreduceSize", "sized",
              "Allgatherv", "gathered", "done"}

\* C23: for one GetDomainNesting request either every rank skips without
\* a collective call or every rank performs the collective sequence: no
\* rank skips while another one has entered the collectives.
C23_AllSkipOrAllCollective ==
  \A p \in Procs : \A q \in Procs :
    ~(npc[p] = "skipped" /\ InCollectives(q))

\* Rank p holds the extent table as the reduction delivered it.
HasReduced(p) ==
  npc[p] \in {"reduced", "AllreduceSize", "sized", "Allgatherv",
              "gathered", "done"}

\* Some rank wrote the extent of the patch of composite index i.
Written(i) == amr.owner[i + 1] # NoRank

\* C24: after the element-wise maximum reduction of the extent table, on
\* every rank the 6 entries of a patch that some rank wrote are the true
\* extent of the patch (the true extents being >= 0), and the entries of a
\* patch that no rank wrote are still the sentinel -1.
C24_ReducedTableIsTrueExtent ==
  \A p \in Procs :
    HasReduced(p) =>
      \A i \in 0..(GetTotalNumberOfBlocks(amr.blocks) - 1) :
        ExtOf(allext[p], i)
          = IF Written(i) THEN amr.box[i + 1]
            ELSE [k \in 1..6 |-> -1]

\* The reduction has delivered a table with patches written by two
\* different ranks and a patch that no rank wrote.
C24_Witness ==
  /\ \A p \in Procs : npc[p] = "reduced"
  /\ \E a \in SeqToSet(amr.owner) : \E b \in SeqToSet(amr.owner) :
       a # b /\ a # NoRank /\ b # NoRank
  /\ \E i \in 0..(GetTotalNumberOfBlocks(amr.blocks) - 1) : ~Written(i)

\* Rank p has computed topdim and the children of its work items.
HasComputed(p) ==
  npc[p] \in {"AllreduceSize", "sized", "Allgatherv", "gathered", "done"}

\* The patches whose extents rank p has passed to box_intersect: its work
\* items and every patch of the level below each of them.
Intersected(p) ==
  LET mywork == SeqToSet(MyWork(Work(amr.blocks), p, NumProcs))
  IN mywork \cup
     UNION {{GetCompositeIndex(amr.blocks, LevelOf(amr.blocks, dom) + 1, jj) :
               jj \in 0..(GetNumberOfDataSets(amr.blocks,
                             LevelOf(amr.blocks, dom) + 1) - 1)} :
            dom \in mywork}

\* C25: an extent that is still the sentinel -1 after the reduction is
\* never used: it is not passed to the intersection test, not used for
\* the topological dimension and not emitted as a logical extent.
C25_SentinelNeverUsed ==
  \A p \in Procs :
    /\ HasComputed(p) =>
         /\ Written(0)
         /\ \A i \in Intersected(p) : Written(i)
    /\ npc[p] = "done" =>
         \A k \in 1..Len(nesting[p]) : Written(nesting[p][k].dom)

\* The number of cells the reduced z-extent of patch i spans on rank p.
CellsInZ(p, i) == ExtOf(allext[p], i)[6] - ExtOf(allext[p], i)[5] + 1

\* C26: the topological dimension of GetDomainNesting is 3 when the
\* reduced z-extent of some patch of the hierarchy spans more than one
\* cell, and 2 otherwise.
C26_TopdimFromAnyPatch ==
  \A p \in Procs :
    HasComputed(p) =>
      topdim[p] =
        IF \E i \in 0..(GetTotalNumberOfBlocks(amr.blocks) - 1) :
             CellsInZ(p, i) > 1
        THEN 3 ELSE 2

\* C27: in every nesting result a patch of the finest level has an empty
\* child list, and every child listed for a patch of level L is a patch of
\* level L+1.
C27_OnlyDirectChildren ==
  \A p \in Procs :
    npc[p] = "done" =>
      \A k \in 1..Len(nesting[p]) :
        LET dom == nesting[p][k].dom
            level == LevelOf(amr.blocks, dom)
        IN /\ level = GetNumberOfLevels(amr.blocks) - 1
                => nesting[p][k].children = <<>>
           /\ \A c \in SeqToSet(nesting[p][k].children) :
                /\ c \in 0..(GetTotalNumberOfBlocks(amr.blocks) - 1)
                /\ LevelOf(amr.blocks, c) = level + 1

\* A hierarchy of three levels has been nested in which the patch of
\* level 0 and the patch of level 1 both have a child.
C27_Witness ==
  /\ AllNested
  /\ GetNumberOfLevels(amr.blocks) = 3
  /\ \E k \in 1..Len(nesting[0]) :
       nesting[0][k].level = 0 /\ nesting[0][k].children # <<>>
  /\ \E k \in 1..Len(nesting[0]) :
       nesting[0][k].level = 1 /\ nesting[0][k].children # <<>>

\* The dataset kinds the conversion is meant for: a vtkPolyData counts
\* only when it has no cells other than vertices.
SupportedKind(d) ==
  \/ d.class \in {"vtkImageData", "vtkRectilinearGrid",
                  "vtkStructuredGrid", "vtkUnstructuredGrid"}
  \/ d.class = "vtkPolyData" /\ ~d.polys

ExternalKind(d) ==
  CASE d.class \in {"vtkImageData", "vtkRectilinearGrid"}
         -> "RectilinearMesh"
    [] d.class = "vtkStructuredGrid" -> "CurvilinearMesh"
    [] d.class = "vtkPolyData" -> "PointMesh"
    [] d.class = "vtkUnstructuredGrid" -> "UnstructuredMesh"
    [] OTHER -> "VISIT_INVALID_HANDLE"

\* C28: the conversion returns the invalid handle, with no mesh left
\* allocated, for a dataset of none of the five kinds and for a vtkPolyData
\* without points; for the five kinds with coordinates present (and the
\* engine's allocations succeeding) it returns a mesh of the kind that
\* corresponds.
C28_ConversionResultByKind ==
  meshPc = "returned" =>
    /\ (~SupportedKind(dataSet)
        \/ (dataSet.class = "vtkPolyData" /\ ~dataSet.points))
         => (mesh = "VISIT_INVALID_HANDLE" /\ allocated = {})
    /\ (SupportedKind(dataSet) /\ dataSet.points /\ ~allocFailed)
         => (mesh = ExternalKind(dataSet) /\ allocated = {mesh})

\* Every rank has built its list.
AllPartitioned == \A r \in Ranks : workPc[r] = "done"

\* C29: the work item at position i of the work list is computed by the
\* rank i modulo the number of ranks.
C29_RoundRobin ==
  \A r \in Ranks :
    workPc[r] = "done" =>
      \A i \in 0..(Len(workList) - 1) :
        (workList[i + 1] \in SeqToSet(myWork[r])) <=> (i % commSize = r)

\* The share of rank q of w items among n ranks, and the position the
\* block of rank r starts at.
Share(w, q, n) == (w - q + n - 1) \div n

RECURSIVE FirstOf(_, _, _)
FirstOf(w, r, n) ==
  IF r = 0 THEN 0 ELSE FirstOf(w, r - 1, n) + Share(w, r - 1, n)

\* C29, amended: the work list is split into consecutive blocks in rank
\* order; the list of rank r is the block that follows the blocks of the
\* lower ranks, and it has as many items as there are positions i with
\* i modulo the number of ranks equal to r.
C29_ConsecutiveBlocks ==
  \A r \in Ranks :
    workPc[r] = "done" =>
      LET w == Len(workList)
          first == FirstOf(w, r, commSize)
      IN myWork[r] = SubSeq(workList, first + 1,
                            first + Share(w, r, commSize))

\* Two ranks have split three items: rank 0 holds positions 0 and 1.
C29_Witness ==
  /\ commSize = 2
  /\ Len(workList) = 3
  /\ AllPartitioned
  /\ myWork[0] = <<workList[1], workList[2]>>
  /\ myWork[1] = <<workList[3]>>

\* The number of places of the sequence s that hold x.
Occurrences(s, x) == Cardinality({k \in 1..Len(s) : s[k] = x})

\* C30: the lists of the ranks are a partition of the work list: every
\* item is in the list of exactly one rank, once; no item was read from
\* behind the end of the work list; the lengths of two lists differ by at
\* most one.
C30_WorkIsPartitioned ==
  /\ \A r \in Ranks :
       workPc[r] = "done" => OutOfBounds \notin SeqToSet(myWork[r])
  /\ \A r, q \in Ranks :
       (workPc[r] = "done" /\ workPc[q] = "done") =>
         /\ Len(myWork[r]) - Len(myWork[q]) <= 1
         /\ r # q => SeqToSet(myWork[r]) \cap SeqToSet(myWork[q]) = {}
  /\ AllPartitioned =>
       \A i \in 1..Len(workList) :
         SeqSum([r \in 1..commSize |->
                   Occurrences(myWork[r - 1], workList[i])]) = 1

\* Three ranks have split more items than there are ranks, and the items
\* do not divide evenly.
C30_Witness ==
  /\ commSize = 3
  /\ Len(workList) > commSize
  /\ Len(workList) % commSize # 0
  /\ AllPartitioned

\* C31: the logical extent of every record of a nesting result is the
\* table extent of its patch in the order low i, low j, low k, high i,
\* high j, high k, for the records of the gathered triples and for the
\* records of the last level.
C31_LogicalExtentOrder ==
  \A p \in Procs :
    npc[p] = "done" =>
      \A k \in 1..Len(nesting[p]) :
        LET ext == ExtOf(allext[p], nesting[p][k].dom)
        IN \A axis \in 0..2 :
             /\ nesting[p][k].logicalExt[axis + 1] = ext[2 * axis + 1]
             /\ nesting[p][k].logicalExt[axis + 4] = ext[2 * axis + 2]

\* A result holds a record of either loop whose logical extent is not the
\* table extent read in table order.
C31_Witness ==
  /\ npc[0] = "done"
  /\ \A src \in {"triples", "leaves"} :
       \E k \in 1..Len(nesting[0]) :
         /\ nesting[0][k].from = src
         /\ nesting[0][k].logicalExt
              # ExtOf(allext[0], nesting[0][k].dom)

\* The entry of mesh m on rank p holds a fetched object and a leaf.
HoldsData(p, m) ==
  /\ m \in DOMAIN meshData[p]
  /\ meshData[p][m].dataObj # "nullptr"
  /\ \E i \in 1..Len(meshData[p][m].datasets) :
       meshData[p][m].datasets[i] # nullptr

\* What AddMeshDataCacheEntry for mesh m leaves behind on every rank.
AddedFresh(m) ==
  \A p \in Procs :
    /\ DOMAIN meshData'[p] = (DOMAIN meshData[p]) \cup {m}
    /\ \A n \in (DOMAIN meshData[p]) \ {m} :
         meshData'[p][n] = meshData[p][n]
    /\ meshData'[p][m].dataObj = "nullptr"
    /\ meshData'[p][m].datasetsHaveGhostCells = FALSE
    /\ Len(meshData'[p][m].datasets) = Len(DatasetIds(da[m], p))
    /\ \A i \in 1..Len(meshData'[p][m].datasets) :
         meshData'[p][m].datasets[i] = nullptr

\* C32: AddMeshDataCacheEntry for a mesh name leaves the entries of the
\* other names as they were and the map with one entry for the name; an
\* entry the name already had is replaced by a new one: every leaf slot
\* null, no data object, ghost flag false.
C32_AddReplacesOnlyItsEntry ==
  [][\A m \in RequestedMeshes :
       Cache_AddMeshDataCacheEntry(m) => AddedFresh(m)]_vars

\* Rank 0 holds a populated entry of mesh 1 and a populated entry of
\* another mesh, and AddMeshDataCacheEntry can be called for mesh 1.
C32_Witness ==
  /\ HoldsData(0, 1)
  /\ \E n \in RequestedMeshes : n # 1 /\ HoldsData(0, n)
  /\ ENABLED Cache_AddMeshDataCacheEntry(1)

\* C33: in whatever order the engine issues its requests after the
\* metadata pass, GetVariable for a domain of the rank never dereferences
\* a leaf that was not fetched: it finds the leaf or returns the invalid
\* handle.
C33_GetVariableFindsLeafOrFails ==
  (cb.op = "GetVariable" /\ cb.localdomain >= 0) => cb.h # "crash"

\* C34: GetMesh for a domain of the rank whose leaf is not cached asks the
\* data adaptor for the mesh once and converts the cached leaf; when the
\* request fails it returns the invalid handle, dereferences no null
\* dataset and leaves the cache as it was.
C34_GetMeshFetchesOnceOrFails ==
  (cb.op = "GetMesh" /\ cb.localdomain >= 0 /\ cb.daCalls # <<>>) =>
    /\ cb.daCalls = <<"GetMesh">>
    /\ cb.h # "crash"
    /\ ~cb.changed => cb.h = "VISIT_INVALID_HANDLE"

\* The object of mesh m has been fetched on rank p.
Fetched(p, m) ==
  m \in DOMAIN meshData[p] /\ meshData[p][m].dataObj # "nullptr"

\* C35: after a successful FetchMesh every leaf slot i of the entry holds
\* the leaf whose flat index is doms_this_rank[i]; the entry has as many
\* slots as AddMeshDataCacheEntry allocated, before and after the fetch.
C35_SlotsHoldTheirDomains ==
  \A p \in Procs :
    \A m \in DOMAIN meshData[p] :
      /\ Len(meshData[p][m].datasets) = Len(meshData[p][m].doms_this_rank)
      /\ Fetched(p, m) =>
           \A i \in 1..Len(meshData[p][m].doms_this_rank) :
             meshData[p][m].datasets[i] = meshData[p][m].doms_this_rank[i]

\* A rank has fetched a mesh of which it holds two leaves.
C35_Witness ==
  \E p \in Procs :
    \E m \in DOMAIN meshData[p] :
      /\ Fetched(p, m)
      /\ Len(meshData[p][m].doms_this_rank) = 2
      /\ meshData[p][m].datasets[2] # nullptr

\* C36: every global domain id a rank reports in the domain list of a
\* mesh lies in 0 .. total - 1 for the total the list advertises, and no
\* id is reported by two ranks.
C36_DomainIdsInRangeAndDisjoint ==
  \A p \in Procs :
    \A m \in DOMAIN meshData[p] :
      LET list == GetDomainList(meshData[p], m)
      IN /\ \A i \in 1..list.size :
              list.domains[i] \in 0..(list.total - 1)
         /\ \A q \in Procs \ {p} :
              m \in DOMAIN meshData[q] =>
                SeqToSet(list.domains)
                  \cap SeqToSet(GetDomainList(meshData[q], m).domains) = {}

\* ------------------------------------------------------------------------
\* C37, C38: the interactive session
\* ------------------------------------------------------------------------

\* The value rank p reads next is a broadcast of ProcessVisItCommand
\* exactly when rank p is inside ProcessVisItCommand.
CommandsMatched ==
  \A p \in NonRoot :
    chan[p] # <<>> =>
      (Head(chan[p]).kind = "command" <=> eiPc[p] = "command")

\* A rank that leaves the receive loop does so on the last broadcast of
\* rank 0 and returns what rank 0 returned: 1 on SUCCESS, 0 on FAILURE.
ReturnsAsRoot ==
  \A p \in NonRoot :
    (eiPc[p] = "command" /\ eiPc'[p] # "command") =>
      /\ Head(chan[p]).val \in {VISIT_COMMAND_SUCCESS, VISIT_COMMAND_FAILURE}
      /\ pvcRet'[p] = Head(chan[p]).ret
      /\ pvcRet'[p] = IF Head(chan[p]).val = VISIT_COMMAND_SUCCESS
                        THEN 1 ELSE 0

\* C37: in ProcessVisItCommand every broadcast of rank 0, the PROCESS
\* broadcasts of SlaveProcessCallback and the final SUCCESS or FAILURE,
\* is read by exactly one broadcast of every other rank, in the receive
\* loop; every other rank eventually leaves the loop, and it returns the
\* value rank 0 returned.
C37_CommandBroadcastsMatch ==
  /\ []CommandsMatched
  /\ [][ReturnsAsRoot]_vars
  /\ \A p \in NonRoot : (eiPc[p] = "command") ~> (eiPc[p] # "command")

\* Every rank has run a command and then returned 0 from
\* ProcessVisItCommand, as rank 0 did.
C37_Witness ==
  \A p \in Procs :
    /\ eiPc[p] # "command"
    /\ pvcRet[p] = 0
    /\ rpcAt[p] >= 1

\* The step of rank p runs a "run" command or returns from a failed
\* engine command.
ClearedByRunOrFailure(p) ==
  /\ eiPc[p] = "command"
  /\ IF p = 0
       THEN \/ /\ rpcAt[0] < Len(viewer.cmds)
               /\ viewer.cmds[rpcAt[0] + 1] = "run"
            \/ /\ rpcAt[0] = Len(viewer.cmds)
               /\ ~viewer.success
       ELSE /\ chan[p] # <<>>
            /\ \/ /\ Head(chan[p]).val = VISIT_COMMAND_PROCESS
                  /\ Head(chan[p]).data = "run"
               \/ Head(chan[p]).val = VISIT_COMMAND_FAILURE

\* Nothing but a "run" command or a failed engine command clears paused,
\* and a rank returns only when it is not paused.
PausedKeepsPolling ==
  \A p \in Procs :
    /\ (paused[p] /\ ~paused'[p]) => ClearedByRunOrFailure(p)
    /\ (eiPc[p] # "returned" /\ eiPc'[p] = "returned") => ~paused'[p]

\* No rank is ahead of rank 0; a rank that has returned is not paused and
\* has read every visitstate rank 0 broadcast; the ranks that have
\* returned ran as many iterations as rank 0 has or will have run; and a
\* rank at the top of the loop reads a visitstate next.
IterationsMatched ==
  \A p \in NonRoot :
    /\ iters[p] <= iters[0]
    /\ eiPc[p] = "returned" =>
         /\ ~paused[p]
         /\ chan[p] = <<>>
         /\ eiPc[0] = "returned"
         /\ iters[p] = iters[0]
    /\ (eiPc[p] = "loop" /\ chan[p] # <<>>) =>
         Head(chan[p]).kind = "visitstate"

\* C38: Execute_Interactive does not return while paused is set, which
\* only a "run" command or a failed engine command clears; every rank
\* runs the same number of iterations of the loop, so that every
\* broadcast of visitstate is read once by every rank.
C38_PausedLoopsOnEveryRank ==
  /\ []((eiPc[0] = "returned" => ~paused[0]) /\ IterationsMatched)
  /\ [][PausedKeepsPolling]_vars

\* Every rank has returned after more than one iteration: it was paused
\* at the end of the first.
C38_Witness ==
  \A p \in Procs :
    /\ eiPc[p] = "returned"
    /\ iters[p] >= 2
    /\ iters[p] = iters[0]

====
